---- MODULE Spec2Model ----
(***************************************************************************)
(* interactiveJS: panes made draggable, resizable, minimizable,            *)
(* maximizable and closable inside the document body.                      *)
(*                                                                         *)
(* The model follows the combined build (interactive / resizable /         *)
(* draggable / minMax / close, minMaxClose.js lines 742-2025), the         *)
(* minMaxClose build (minMaxClose.js lines 1-733) and the standalone       *)
(* draggable and resizable builds.  A pane is the element passed to        *)
(* interactive(), minMaxClose(), draggable() or resizable(); a resizable   *)
(* pane is wrapped in a 'parentResize' grid whose tracks are               *)
(* '3px <size> 3px'.  Inline styles are kept as the values the code        *)
(* writes; lengths are kept as records [n, unit] so that the code's        *)
(* parseInt(s.slice(0, -2)) is computed, not assumed.                      *)
(***************************************************************************)
EXTENDS Integers, Sequences, FiniteSets, TLC

\* ------------------------------------------------------------------ bounds
NumPanes == 3          \* panes that can be registered
MaxPointer == 2        \* pointer coordinates range over 0..MaxPointer
MaxCapacity == 2       \* widest minimize area holds this many items
MaxRegistry == 3       \* minimize requests are taken while minStorage is shorter
MaxChildren == 4       \* ... and while #minimizeZone has fewer children
MaxOffset == 6          \* left and top stay at or below this in SpecMaxResize
MaxNodeOffset == 1   \* standalone builds: largest left offset of a node that is explored
MaxDriftOffset == 3  \* largest left and top offset explored for a pane with a margin

\* ------------------------------------------------------- program constants
MinSize == 5           \* "Ensure min width (Default 5px)"
EdgeMargin == 6        \* two resize points of 3px
PointSize == 3         \* one resize point track
DefaultWidth == 200
DefaultHeight == 150
FrontTier == 2
BackTier == 1
Inherit == 0           \* style.zIndex = 'inherit'
Undefined == 0 - 1     \* the JavaScript value undefined, where a number is expected
PrimaryButton == 1     \* event.which == 1

Panes == 1 .. NumPanes
PointerRange == 0 .. MaxPointer

\* interactive(id, config): a missing config, and a config that sets no
\* field to false, make the pane resizable, draggable, closable and
\* min/max-able; each field set to false leaves its part out.  In the
\* initial states of the specifications below odd panes have been
\* registered with the default config and even panes with {resize: false}.
DefaultConfig == [resize |-> TRUE, drag |-> TRUE, close |-> TRUE, minMax |-> TRUE]
InitConfig(p) == [DefaultConfig EXCEPT !.resize = (p % 2 = 1)]

ResizePoints ==
  {"left", "upperLeft", "top", "upperRight", "right", "lowerRight", "bottom", "lowerLeft"}

\* --------------------------------------------------------------- lengths
Px(n) == [n |-> n, unit |-> "px"]
Percent(n) == [n |-> n, unit |-> "%"]

\* parseInt(s.slice(0, -2)): the last two characters are dropped, whatever
\* they are.  'Npx' gives N; 'N%' loses its last digit and the sign: '100%'
\* gives 10.
parseIntSlice(v) == IF v.unit = "px" THEN v.n ELSE v.n \div 10

VARIABLES
  viewport,      \* [w, h]: document.body.clientWidth/clientHeight (= window.innerWidth/innerHeight)
  pane,          \* [Panes -> pane record], the elements of class 'interactive' and their wrappers
  maxStorage,    \* the object maxStorage: a function from pane ids to {actualSize}
  minStorage,    \* the array minStorage
  count,         \* global count
  dropdown,      \* global dropdown: TRUE, or FALSE for undefined
  numItems,      \* global numItems
  elementWidth,  \* global elementWidth
  minimizeZone,  \* children of #minimizeZone, in document order
  areaWidth,     \* minimizeArea.clientWidth
  session,       \* document.onmousemove / onmouseup closure
  threw,         \* the last handler ended with an uncaught exception
  hasMinimizeZone, \* document.getElementById('minimizeZone') != null
  globalElement  \* the implicit global 'element' of the standalone builds: a node

vars == <<viewport, pane, maxStorage, minStorage, count, dropdown, numItems,
          elementWidth, minimizeZone, areaWidth, session, threw,
          hasMinimizeZone, globalElement>>

overflowVars == <<minStorage, count, dropdown, numItems, elementWidth, minimizeZone>>

\* element.classList.contains('resizable'): the pane has a wrapper
IsResizable(p) == pane[p].wrapper

\* ------------------------------------------------------------ pane record
\* left, top      style.left / style.top of the positioned box (wrapper when resizable)
\* width, height  element.style.width / height
\* gridCol/Row    middle track of the wrapper's grid-template-columns / rows
\* margin         style.margin of the positioned box
\* display        "shown" or "none"
\* zIndex         style.zIndex of the stacking box (wrapper when resizable)
\* attached       the element is in the document and has been registered by
\*                interactive(), or by draggable() / resizable() of the
\*                standalone builds
\* wrapper        the element has a 'parentResize' wrapper
\* header         the element has a drag point
\* closeBtn       the element has a close button
\* minMaxBtn      the element has the minimize and maximize buttons
\* removed        the close button has taken the element out of the document
\* innerLeft/Top  style.left / style.top of the element inside its wrapper
NoPane ==
  [left |-> 0, top |-> 0, width |-> Px(0), height |-> Px(0), gridCol |-> 0, gridRow |-> 0,
   margin |-> 0, display |-> "none", zIndex |-> Inherit, attached |-> FALSE,
   wrapper |-> FALSE, header |-> FALSE, closeBtn |-> FALSE, minMaxBtn |-> FALSE,
   removed |-> FALSE, innerLeft |-> 0, innerTop |-> 0]

\* document.getElementById(id) finds the element of the pane
InDocument(q) == ~q.removed

\* offsetLeft/offsetTop/offsetWidth/offsetHeight of the positioned box.  A box
\* that is not rendered (display none, or detached) reports 0.
Rendered(q) == q.attached /\ q.display = "shown"
offsetLeft(q) == IF Rendered(q) THEN q.left + q.margin ELSE 0
offsetTop(q) == IF Rendered(q) THEN q.top + q.margin ELSE 0
offsetWidth(p, q) ==
  IF ~Rendered(q) THEN 0 ELSE IF q.wrapper THEN q.gridCol + 2 * PointSize ELSE q.width.n
offsetHeight(p, q) ==
  IF ~Rendered(q) THEN 0 ELSE IF q.wrapper THEN q.gridRow + 2 * PointSize ELSE q.height.n

\* grid-template-columns = '3px ' + n + 'px 3px': a negative track is not a
\* valid value and the declaration is dropped
SetTrack(old, n) == IF n >= 0 THEN n ELSE old

\* ------------------------------------------------- resize: zones and measures
getHorizontalResizePointZone(resizePoint) ==
  IF resizePoint \in {"left", "upperLeft", "lowerLeft"} THEN 0
  ELSE IF resizePoint \in {"right", "upperRight", "lowerRight"} THEN 1
  ELSE Undefined

getVerticalResizePointZone(resizePoint) ==
  IF resizePoint \in {"top", "upperLeft", "upperRight"} THEN 2
  ELSE IF resizePoint \in {"bottom", "lowerLeft", "lowerRight"} THEN 3
  ELSE Undefined

getResizePointZone(resizePoint) ==
  <<getHorizontalResizePointZone(resizePoint), getVerticalResizePointZone(resizePoint)>>

changeHorizontalMeasures_noMin(q, mouseDrag0, zone, vp) ==
  IF zone = Undefined THEN q
  ELSE
    LET mouseDrag == IF zone = 1 THEN 0 - mouseDrag0 ELSE mouseDrag0
        width == parseIntSlice(q.width) + mouseDrag
        oLeft == offsetLeft(q)
    IN IF zone = 1 /\ oLeft + width + EdgeMargin > vp.w THEN q
       ELSE IF width >= 0 THEN
              IF zone = 0 /\ oLeft - mouseDrag < 0 THEN q
              ELSE [q EXCEPT !.left = IF zone = 0 THEN oLeft - mouseDrag ELSE @,
                             !.width = Px(width),
                             !.gridCol = width]
            ELSE q

changeHorizontalMeasures_leftKeepsOffset(q, mouseDrag0, zone, vp) ==
  IF zone = Undefined THEN q
  ELSE
    LET mouseDrag == IF zone = 1 THEN 0 - mouseDrag0 ELSE mouseDrag0
        width == parseIntSlice(q.width) + mouseDrag
        oLeft == offsetLeft(q)
    IN IF zone = 1 /\ oLeft + width + EdgeMargin > vp.w THEN q
       ELSE IF width >= MinSize THEN
              IF zone = 0 /\ oLeft - mouseDrag < 0 THEN q
              ELSE [q EXCEPT !.width = Px(width), !.gridCol = width]
            ELSE q

changeHorizontalMeasures(q, mouseDrag0, zone, vp) ==
  IF zone = Undefined THEN q
  ELSE
    LET mouseDrag == IF zone = 1 THEN 0 - mouseDrag0 ELSE mouseDrag0
        width == parseIntSlice(q.width) + mouseDrag
        oLeft == offsetLeft(q)
    IN IF zone = 1 /\ oLeft + width + EdgeMargin > vp.w THEN q
       ELSE IF width >= MinSize THEN
              IF zone = 0 /\ oLeft - mouseDrag < 0 THEN q
              ELSE [q EXCEPT !.left = IF zone = 0 THEN oLeft - mouseDrag ELSE @,
                             !.width = Px(width),
                             !.gridCol = width]
            ELSE q

changeVerticalMeasures_noBottom(q, mouseDrag0, zone, vp) ==
  IF zone = Undefined THEN q
  ELSE
    LET mouseDrag == IF zone = 3 THEN 0 - mouseDrag0 ELSE mouseDrag0
        height == parseIntSlice(q.height) + mouseDrag
        oTop == offsetTop(q)
    IN IF height >= MinSize THEN
         IF zone = 2 /\ oTop - mouseDrag < 0 THEN q
         ELSE [q EXCEPT !.top = IF zone = 2 THEN oTop - mouseDrag ELSE @,
                        !.height = Px(height),
                        !.gridRow = height]
       ELSE q

changeVerticalMeasures(q, mouseDrag0, zone, vp) ==
  IF zone = Undefined THEN q
  ELSE
    LET mouseDrag == IF zone = 3 THEN 0 - mouseDrag0 ELSE mouseDrag0
        height == parseIntSlice(q.height) + mouseDrag
        oTop == offsetTop(q)
    IN IF zone = 3 /\ oTop + height + EdgeMargin > vp.h THEN q
       ELSE IF height >= MinSize THEN
              IF zone = 2 /\ oTop - mouseDrag < 0 THEN q
              ELSE [q EXCEPT !.top = IF zone = 2 THEN oTop - mouseDrag ELSE @,
                             !.height = Px(height),
                             !.gridRow = height]
            ELSE q

changeElementSizeAndPosition_stopAtRejection(q, resizePoint, mouseDrag, vp) ==
  LET zone == getResizePointZone(resizePoint)
      horizontal == changeHorizontalMeasures(q, mouseDrag.x, zone[1], vp)
  IN IF zone[1] # Undefined /\ horizontal = q THEN q
     ELSE changeVerticalMeasures(horizontal, mouseDrag.y, zone[2], vp)

changeElementSizeAndPosition(q, resizePoint, mouseDrag, vp) ==
  LET zone == getResizePointZone(resizePoint)
  IN changeVerticalMeasures(changeHorizontalMeasures(q, mouseDrag.x, zone[1], vp),
                            mouseDrag.y, zone[2], vp)

\* ------------------------------------------------------------------- drag
getElementOffsetAndMeasures(p, q) ==
  [left |-> offsetLeft(q), top |-> offsetTop(q),
   height |-> offsetHeight(p, q), width |-> offsetWidth(p, q)]

getDocumentBodyLimits(vp) == [left |-> 0, right |-> vp.w, top |-> 0, bottom |-> vp.h]

preventDragOutsideScreen(element, newPosition, boundaries, vp) ==
  LET limit == getDocumentBodyLimits(vp)
  IN [x |-> IF boundaries.left < limit.left \/ boundaries.right > limit.right
            THEN element.left ELSE newPosition.x,
      y |-> IF boundaries.top < limit.top \/ boundaries.bottom > limit.bottom
            THEN element.top ELSE newPosition.y]

getDragNewPosition(p, q, mouseDrag, vp) ==
  LET element == getElementOffsetAndMeasures(p, q)
      newPosition == [x |-> element.left - mouseDrag.x, y |-> element.top - mouseDrag.y]
      boundaries == [left |-> newPosition.x, top |-> newPosition.y,
                     right |-> newPosition.x + element.width,
                     bottom |-> newPosition.y + element.height]
  IN preventDragOutsideScreen(element, newPosition, boundaries, vp)

\* dragAction(action, mouseDrag) applied to the pane the action holds
dragAction(action, q, mouseDrag, vp) ==
  IF action.action = "resize"
  THEN changeElementSizeAndPosition(q, action.zone, mouseDrag, vp)
  ELSE IF action.action = "drag"
  THEN LET newPosition == getDragNewPosition(action.target, q, mouseDrag, vp)
       IN [q EXCEPT !.left = newPosition.x, !.top = newPosition.y]
  ELSE q

\* ---------------------------------------------------------------- z-order
\* changeStackOrder with this = p: every element of class 'interactive'
\* that is in the document is visited
changeStackOrder_keepOthers(ps, p) ==
  [r \in Panes |->
     IF ~ps[r].attached THEN ps[r]
     ELSE IF r = p THEN [ps[r] EXCEPT !.zIndex = FrontTier]
     ELSE ps[r]]

changeStackOrder_detachedToo(ps, p) ==
  [r \in Panes |->
     IF r = p THEN [ps[r] EXCEPT !.zIndex = FrontTier]
     ELSE IF ps[r].wrapper THEN [ps[r] EXCEPT !.zIndex = BackTier]
     ELSE [ps[r] EXCEPT !.zIndex = Inherit]]

changeStackOrder(ps, p) ==
  [r \in Panes |->
     IF ~ps[r].attached THEN ps[r]
     ELSE IF r = p THEN [ps[r] EXCEPT !.zIndex = FrontTier]
     ELSE IF ps[r].wrapper THEN [ps[r] EXCEPT !.zIndex = BackTier]
     ELSE [ps[r] EXCEPT !.zIndex = Inherit]]

\* ------------------------------------------------------ maximize / restore
\* getComputedStyle of the positioned box: the snapshot has no margin entry
getElementSizeAndPosition(p, q) ==
  [width |-> IF q.wrapper THEN q.gridCol + 2 * PointSize ELSE q.width.n,
   height |-> IF q.wrapper THEN q.gridRow + 2 * PointSize ELSE q.height.n,
   top |-> q.top,
   left |-> q.left,
   gridCol |-> q.gridCol,
   gridRow |-> q.gridRow]

\* style.margin = actualSize.margin: undefined is not a valid margin, the
\* declaration keeps its value
RestoredMargin(actualSize, old) ==
  IF "margin" \in DOMAIN actualSize THEN actualSize.margin ELSE old

maximizeBranch_fullTracks(p, q, vp) ==
  IF q.wrapper
  THEN [q EXCEPT !.width = Percent(100), !.height = Percent(100),
                 !.top = 0, !.left = 0, !.margin = 0,
                 !.gridRow = SetTrack(@, vp.h),
                 !.gridCol = SetTrack(@, vp.w)]
  ELSE [q EXCEPT !.top = 0, !.left = 0, !.margin = 0,
                 !.width = Px(vp.w - EdgeMargin), !.height = Px(vp.h - EdgeMargin)]

maximizeBranch(p, q, vp) ==
  IF q.wrapper
  THEN [q EXCEPT !.width = Percent(100), !.height = Percent(100),
                 !.top = 0, !.left = 0, !.margin = 0,
                 !.gridRow = SetTrack(@, vp.h - EdgeMargin),
                 !.gridCol = SetTrack(@, vp.w - EdgeMargin)]
  ELSE [q EXCEPT !.top = 0, !.left = 0, !.margin = 0,
                 !.width = Px(vp.w), !.height = Px(vp.h)]

restoreBranch_swapped(p, q, actualSize) ==
  IF q.wrapper
  THEN [q EXCEPT !.top = actualSize.top, !.left = actualSize.left,
                 !.margin = RestoredMargin(actualSize, @),
                 !.gridRow = actualSize.gridCol,
                 !.gridCol = actualSize.gridRow]
  ELSE [q EXCEPT !.top = actualSize.top, !.left = actualSize.left,
                 !.width = Px(actualSize.height),
                 !.margin = RestoredMargin(actualSize, @),
                 !.height = Px(actualSize.width)]

restoreBranch(p, q, actualSize) ==
  IF q.wrapper
  THEN [q EXCEPT !.top = actualSize.top, !.left = actualSize.left,
                 !.margin = RestoredMargin(actualSize, @),
                 !.gridRow = actualSize.gridRow,
                 !.gridCol = actualSize.gridCol]
  ELSE [q EXCEPT !.top = actualSize.top, !.left = actualSize.left,
                 !.width = Px(actualSize.width),
                 !.margin = RestoredMargin(actualSize, @),
                 !.height = Px(actualSize.height)]

\* delete maxStorage[index]
DeleteKey(f, k) == [x \in DOMAIN f \ {k} |-> f[x]]
SetKey(f, k, v) == [x \in DOMAIN f \cup {k} |-> IF x = k THEN v ELSE f[x]]

maxBtnOnclick_keepsSnapshot(p, q, store, vp) ==
  IF p \notin DOMAIN store
  THEN [q |-> maximizeBranch(p, q, vp),
        store |-> SetKey(store, p, [actualSize |-> getElementSizeAndPosition(p, q)])]
  ELSE [q |-> restoreBranch(p, q, store[p].actualSize),
        store |-> store]

\* maxBtn.onclick for pane p with box q: the box and maxStorage afterwards
maxBtnOnclick(p, q, store, vp) ==
  IF p \notin DOMAIN store
  THEN [q |-> maximizeBranch(p, q, vp),
        store |-> SetKey(store, p, [actualSize |-> getElementSizeAndPosition(p, q)])]
  ELSE [q |-> restoreBranch(p, q, store[p].actualSize),
        store |-> DeleteKey(store, p)]

\* ------------------------------------------------- window resize: containment
\* body of the loop of resizeOnWindowChange for one 'parentResize' wrapper
resizeOnePane(q, vp) ==
  LET leftOffset == offsetLeft(q)
      parentWidth == parseIntSlice(q.width) + EdgeMargin
      width == vp.w - leftOffset - EdgeMargin
      q1 == IF leftOffset + parentWidth > vp.w
            THEN IF width >= MinSize
                 THEN [q EXCEPT !.gridCol = width, !.width = Px(width)]
                 ELSE [q EXCEPT !.left = vp.w - MinSize - EdgeMargin]
            ELSE q
      oTop == offsetTop(q1)
      parentHeight == parseIntSlice(q1.height) + EdgeMargin
      height == vp.h - oTop - EdgeMargin
  IN IF oTop + parentHeight > vp.h
     THEN IF height >= MinSize
          THEN [q1 EXCEPT !.gridRow = height, !.height = Px(height)]
          ELSE IF vp.h - MinSize - EdgeMargin >= 0
               THEN [q1 EXCEPT !.top = vp.h - MinSize - EdgeMargin]
               ELSE q1
     ELSE q1

\* document.getElementsByClassName('parentResize'): the wrappers in the document
resizeOnWindowChange(ps, vp) ==
  [r \in Panes |->
     IF ps[r].attached /\ ps[r].wrapper THEN resizeOnePane(ps[r], vp) ELSE ps[r]]

\* ------------------------------------------------ minimized items: the DOM
\* A child of #minimizeZone: a strip item (span.minimizedItem), the dropdown
\* button, or the dropdown list with its items.  Ids are the numbers the code
\* writes; the two fixed ids are kept apart from them.
BtnId == 0 - 2         \* id 'dropdownBtn'
ListId == 0 - 3        \* id 'dropdownList'
Title(p) == p          \* the pane's name attribute
NoTitle == Title(0)    \* textContent of a slot that holds no entry

Empty == [id |-> 0, title |-> NoTitle]          \* the '' written over a restored slot
Entry(p) == [id |-> p, title |-> Title(p)]

\* display is the node's style.display: "" until a handler writes it
ItemNode(id, title) ==
  [kind |-> "item", id |-> id, title |-> title, items |-> <<>>, display |-> ""]
BtnNode == [kind |-> "btn", id |-> BtnId, title |-> NoTitle, items |-> <<>>, display |-> ""]
ListNode(items) ==
  [kind |-> "list", id |-> ListId, title |-> NoTitle, items |-> items, display |-> ""]

\* parseInt of a computed length that is not a number ('auto'); NaN is kept
\* as the value of undefined: every comparison with either is false and
\* arithmetic on either gives NaN
NaN == Undefined

\* computed width + margin-left + margin-right of a child of the area, as the
\* stylesheet lays it out: a strip item, the dropdown button, or the list
\* (a block as wide as the area).  A node with display none has no box: its
\* computed width is 'auto'
ItemOuterWidth == 8 + 1 + 1
BtnOuterWidth == 4 + 0 + 0
OuterWidth(node, aw) ==
  IF node.display = "none" THEN NaN
  ELSE IF node.kind = "item" THEN ItemOuterWidth
  ELSE IF node.kind = "btn" THEN BtnOuterWidth
  ELSE aw

RemoveAt(s, i) == [k \in 1 .. Len(s) - 1 |-> IF k < i THEN s[k] ELSE s[k + 1]]
Min(S) == CHOOSE x \in S : \A y \in S : x <= y

\* comparisons with a possibly undefined right operand are false
JsGreater(a, b) == b # Undefined /\ a > b
JsLessEq(a, b) == b # Undefined /\ a <= b

\* document.getElementById(id) below #minimizeZone: the path of the first
\* element with that id in document order, <<i>> for a child of the area,
\* <<i, j>> for an item of the list at i, <<>> for null
getElementById(zone, id) ==
  LET InList(i) == {j \in 1 .. Len(zone[i].items) : zone[i].items[j].id = id}
      Hits == {i \in 1 .. Len(zone) : zone[i].id = id \/ InList(i) # {}}
  IN IF Hits = {} THEN <<>>
     ELSE LET i == Min(Hits)
          IN IF zone[i].id = id THEN <<i>> ELSE <<i, Min(InList(i))>>

\* The overflow manager's globals and DOM, threaded through one handler
Manager ==
  [minStorage |-> minStorage, zone |-> minimizeZone, dropdown |-> dropdown,
   numItems |-> numItems, elementWidth |-> elementWidth, count |-> count,
   threw |-> FALSE]

storeMinimizedElement(m, p) == [m EXCEPT !.minStorage = Append(@, Entry(p))]

\* count = minStorage.length - 1; the last two entries are compared
IsDuplicated(m) ==
  LET c == Len(m.minStorage) - 1
  IN c > 0 /\ m.minStorage[c].id = m.minStorage[c + 1].id

deleteDuplicatedItemsMinStorage_keep(m) ==
  LET c == Len(m.minStorage) - 1
  IN [m EXCEPT !.count = c]

deleteDuplicatedItemsMinStorage(m) ==
  LET c == Len(m.minStorage) - 1
  IN IF IsDuplicated(m)
     THEN [m EXCEPT !.count = c, !.minStorage = SubSeq(@, 1, c)]
     ELSE [m EXCEPT !.count = c]

\* item = minimizeArea.firstElementChild
getItemCountToFitElementByWidth(m, aw) ==
  IF m.zone = <<>> THEN [m EXCEPT !.numItems = Undefined]
  ELSE LET ew == OuterWidth(m.zone[1], aw)
       IN [m EXCEPT !.elementWidth = ew,
                    !.numItems = IF ew = NaN THEN NaN ELSE aw \div ew]

\* parent.removeChild(document.getElementById('' + i)) for i = from .. cnt-1;
\* it throws when the element is null or is not a child of the area
RECURSIVE deleteMinimizedItems(_, _, _)
deleteMinimizedItems(zone, from, cnt) ==
  IF from >= cnt THEN [zone |-> zone, threw |-> FALSE]
  ELSE LET path == getElementById(zone, from)
       IN IF Len(path) # 1 THEN [zone |-> zone, threw |-> TRUE]
          ELSE deleteMinimizedItems(RemoveAt(zone, path[1]), from + 1, cnt)

\* addDropdownItems(minStorage, list): one item per array slot, '' included
addDropdownItems(items) == [j \in 1 .. Len(items) |-> ItemNode(j - 1, items[j].title)]

horizontalRepToDropdownList(cnt, m) ==
  LET d == deleteMinimizedItems(m.zone, 0, cnt)
  IN IF d.threw THEN [m EXCEPT !.zone = d.zone, !.threw = TRUE]
     ELSE [m EXCEPT !.zone = d.zone \o <<BtnNode, ListNode(addDropdownItems(m.minStorage))>>]

\* ddList is the child of the area at position i (0 for null)
fromDropdownToHorizontalMinimized(m, i) ==
  IF i < 2 \/ i > Len(m.zone) THEN [m EXCEPT !.threw = TRUE]
  ELSE LET zone1 == RemoveAt(RemoveAt(m.zone, i - 1), i - 1)
           compact == SelectSeq(m.minStorage, LAMBDA e : e # Empty)
           reps == [j \in 1 .. Len(compact) |-> ItemNode(j - 1, compact[j].title)]
       IN [m EXCEPT !.zone = zone1 \o reps, !.dropdown = FALSE, !.minStorage = compact]

\* minimizeUI up to the hiding of the element
minimizeUI(m, aw) ==
  IF ~m.dropdown
  THEN LET g == getItemCountToFitElementByWidth(m, aw)
       IN IF JsGreater(Len(g.minStorage), g.numItems)
          THEN LET h == horizontalRepToDropdownList(g.numItems, g)
               IN IF h.threw THEN h ELSE [h EXCEPT !.dropdown = TRUE]
          ELSE [g EXCEPT !.zone = Append(@, ItemNode(g.count, g.minStorage[g.count + 1].title))]
  ELSE LET dd == getElementById(m.zone, ListId)
       IN IF Len(dd) # 1 THEN [m EXCEPT !.threw = TRUE]
          ELSE [m EXCEPT !.zone[dd[1]].items =
                           Append(@, ItemNode(m.count, m.minStorage[m.count + 1].title))]

\* the representation at a path, and the area without it
RepAt(zone, path) ==
  IF Len(path) = 1 THEN zone[path[1]] ELSE zone[path[1]].items[path[2]]

RemoveRep(zone, path) ==
  IF Len(path) = 1 THEN RemoveAt(zone, path[1])
  ELSE [zone EXCEPT ![path[1]].items = RemoveAt(@, path[2])]

\* the clickable representations: strip items and items of a dropdown list
RepPaths(zone) ==
  {<<i>> : i \in {k \in 1 .. Len(zone) : zone[k].kind = "item"}}
  \cup UNION {{<<i, j>> : j \in 1 .. Len(zone[i].items)} : i \in 1 .. Len(zone)}

\* "Update minStorage" of maximize(), strip mode: the children of the area
\* are renumbered and the emptied slots are spliced out
updateMinStorage(m) ==
  IF Len(m.zone) = 0 THEN [m EXCEPT !.minStorage = <<>>]
  ELSE [m EXCEPT !.zone = [i \in 1 .. Len(m.zone) |-> [m.zone[i] EXCEPT !.id = i - 1]],
                 !.minStorage = SelectSeq(@, LAMBDA e : e # Empty)]

maximize_silent(m, path, ps) ==
  LET this == RepAt(m.zone, path)
      m1 == [m EXCEPT !.zone = RemoveRep(m.zone, path)]
      index == this.id
      valid == /\ index + 1 \in 1 .. Len(m1.minStorage)
               /\ m1.minStorage[index + 1] # Empty
               /\ InDocument(ps[m1.minStorage[index + 1].id])
  IN IF ~valid THEN [m |-> m1, shown |-> 0]
     ELSE
       LET shown == m1.minStorage[index + 1].id
           m2 == [m1 EXCEPT !.minStorage[index + 1] = Empty]
           dd == getElementById(m2.zone, ListId)
           m3 == IF m2.dropdown
                 THEN IF Len(dd) # 1 THEN [m2 EXCEPT !.threw = TRUE]
                      ELSE IF JsLessEq(Len(m2.zone[dd[1]].items), m2.numItems)
                           THEN fromDropdownToHorizontalMinimized(m2, dd[1])
                           ELSE m2
                 ELSE m2
           m4 == IF ~m3.threw /\ ~m3.dropdown THEN updateMinStorage(m3) ELSE m3
       IN [m |-> m4, shown |-> shown]

\* maximize() with this = the representation at path.  shown is the pane
\* whose box is displayed again (0 when the handler throws before that).
maximize(m, path, ps) ==
  LET this == RepAt(m.zone, path)
      m1 == [m EXCEPT !.zone = RemoveRep(m.zone, path)]
      index == this.id
      valid == /\ index + 1 \in 1 .. Len(m1.minStorage)
               /\ m1.minStorage[index + 1] # Empty
               /\ InDocument(ps[m1.minStorage[index + 1].id])
  IN IF ~valid THEN [m |-> [m1 EXCEPT !.threw = TRUE], shown |-> 0]
     ELSE
       LET shown == m1.minStorage[index + 1].id
           m2 == [m1 EXCEPT !.minStorage[index + 1] = Empty]
           dd == getElementById(m2.zone, ListId)
           m3 == IF m2.dropdown
                 THEN IF Len(dd) # 1 THEN [m2 EXCEPT !.threw = TRUE]
                      ELSE IF JsLessEq(Len(m2.zone[dd[1]].items), m2.numItems)
                           THEN fromDropdownToHorizontalMinimized(m2, dd[1])
                           ELSE m2
                 ELSE m2
           m4 == IF ~m3.threw /\ ~m3.dropdown THEN updateMinStorage(m3) ELSE m3
       IN [m |-> m4, shown |-> shown]

updateMinimizedItemsOnWindowChange(m, aw) ==
  IF ~m.dropdown
  THEN LET g == getItemCountToFitElementByWidth(m, aw)
       IN IF JsGreater(Len(g.minStorage), g.numItems)
          THEN LET h == horizontalRepToDropdownList(g.numItems + 1, g)
               IN IF h.threw THEN h ELSE [h EXCEPT !.dropdown = TRUE]
          ELSE g
  ELSE LET n == IF m.elementWidth = Undefined THEN Undefined ELSE aw \div m.elementWidth
           g == [m EXCEPT !.numItems = n]
       IN IF JsLessEq(Len(g.minStorage), n)
          THEN fromDropdownToHorizontalMinimized(g, IF Len(g.zone) >= 2 THEN 2 ELSE 0)
          ELSE g

\* ------------------------------------------------------------------ session
NoSession == [action |-> "none", target |-> 0, zone |-> "none", x1 |-> 0, y1 |-> 0]

\* a DOM node of a pane: the element, or its wrapper ("parent"); id 0 while
\* the variable is not assigned
NoElement == [id |-> 0, node |-> "element"]

trackMouseDragPlusAction_keepFirst(action, target, zone, x, y) ==
  IF session.action # "none" THEN session
  ELSE [action |-> action, target |-> target, zone |-> zone, x1 |-> x, y1 |-> y]

trackMouseDragPlusAction(action, target, zone, x, y) ==
  [action |-> action, target |-> target, zone |-> zone, x1 |-> x, y1 |-> y]

\* ------------------------------------------------------------------ actions
SetManager(m) ==
  /\ minStorage' = m.minStorage
  /\ minimizeZone' = m.zone
  /\ dropdown' = m.dropdown
  /\ numItems' = m.numItems
  /\ elementWidth' = m.elementWidth
  /\ count' = m.count
  /\ threw' = m.threw

\* a pane the user can point at
Visible(p) == pane[p].attached /\ pane[p].display = "shown"

\* mousedown on the pane's content: it bubbles to element.onmousedown
MouseDownBody(p, which) ==
  /\ Visible(p)
  /\ pane' = changeStackOrder(pane, p)
  /\ threw' = FALSE
  /\ UNCHANGED <<hasMinimizeZone, globalElement, viewport, maxStorage, overflowVars, areaWidth, session>>

\* mousedown on the drag point (the header, buttons included): its own
\* handler runs, then the event bubbles to element.onmousedown
MouseDownDragPoint(p, which, x, y) ==
  /\ Visible(p)
  /\ pane[p].header
  /\ session' = IF which = PrimaryButton
                THEN trackMouseDragPlusAction("drag", p, "none", x, y)
                ELSE session
  /\ pane' = changeStackOrder(pane, p)
  /\ threw' = FALSE
  /\ UNCHANGED <<hasMinimizeZone, globalElement, viewport, maxStorage, overflowVars, areaWidth>>

MouseDownResizePoint_anyButton(p, resizePoint, which, x, y) ==
  /\ Visible(p)
  /\ IsResizable(p)
  /\ session' = trackMouseDragPlusAction("resize", p, resizePoint, x, y)
  /\ threw' = FALSE
  /\ UNCHANGED <<hasMinimizeZone, globalElement, viewport, pane, maxStorage, overflowVars, areaWidth>>

\* mousedown on a resize point: a child of the wrapper, not of the element,
\* so element.onmousedown is not on the event's path
MouseDownResizePoint(p, resizePoint, which, x, y) ==
  /\ Visible(p)
  /\ IsResizable(p)
  /\ session' = IF which = PrimaryButton
                THEN trackMouseDragPlusAction("resize", p, resizePoint, x, y)
                ELSE session
  /\ threw' = FALSE
  /\ UNCHANGED <<hasMinimizeZone, globalElement, viewport, pane, maxStorage, overflowVars, areaWidth>>

\* a mousemove event on the document: the closure installed by
\* trackMouseDragPlusAction runs; while document.onmousemove is null no
\* handler runs
MouseMove(x2, y2) ==
  IF session.action = "none" THEN UNCHANGED vars
  ELSE
    /\ LET mouseDrag == [x |-> session.x1 - x2, y |-> session.y1 - y2]
           p == session.target
       IN pane' = [pane EXCEPT ![p] = dragAction(session, pane[p], mouseDrag, viewport)]
    /\ session' = [session EXCEPT !.x1 = x2, !.y1 = y2]
    /\ threw' = FALSE
    /\ UNCHANGED <<hasMinimizeZone, globalElement, viewport, maxStorage, overflowVars, areaWidth>>

dragMouseStop_keepsListeners ==
  /\ session.action # "none"
  /\ session' = session
  /\ threw' = FALSE
  /\ UNCHANGED <<hasMinimizeZone, globalElement, viewport, pane, maxStorage, overflowVars, areaWidth>>

\* document.onmouseup = dragMouseStop
dragMouseStop ==
  /\ session.action # "none"
  /\ session' = NoSession
  /\ threw' = FALSE
  /\ UNCHANGED <<hasMinimizeZone, globalElement, viewport, pane, maxStorage, overflowVars, areaWidth>>

\* maxBtn.onclick
MaxBtnClick(p) ==
  /\ pane[p].minMaxBtn
  /\ InDocument(pane[p])
  /\ pane[p].display = "shown"
  /\ LET r == maxBtnOnclick(p, pane[p], maxStorage, viewport)
     IN /\ pane' = [pane EXCEPT ![p] = r.q]
        /\ maxStorage' = r.store
  /\ threw' = FALSE
  /\ UNCHANGED <<hasMinimizeZone, globalElement, viewport, overflowVars, areaWidth, session>>

\* closeBtn.onclick: the element (with its wrapper) leaves the document
CloseBtnClick(p) ==
  /\ pane[p].closeBtn
  /\ InDocument(pane[p])
  /\ pane[p].display = "shown"
  /\ pane' = [pane EXCEPT ![p].attached = FALSE, ![p].removed = TRUE]
  /\ threw' = FALSE
  /\ UNCHANGED <<hasMinimizeZone, globalElement, viewport, maxStorage, overflowVars, areaWidth, session>>

minimize_collapse(p, type) ==
  /\ pane[p].minMaxBtn
  /\ InDocument(pane[p])
  /\ Len(minStorage) < MaxRegistry
  /\ Len(minimizeZone) < MaxChildren
  /\ LET stored == storeMinimizedElement(Manager, p)
         checked == deleteDuplicatedItemsMinStorage(stored)
         m == IF IsDuplicated(stored) THEN checked ELSE minimizeUI(checked, areaWidth)
     IN /\ SetManager(m)
        /\ pane' = IF IsDuplicated(stored) \/ m.threw THEN pane
                   ELSE [pane EXCEPT ![p].display = "none",
                                     ![p].width = Px(0), ![p].gridCol = 0]
  /\ UNCHANGED <<hasMinimizeZone, globalElement, viewport, maxStorage, areaWidth, session>>

\* minimize() for pane p: the handler of the minimize button (click) and of
\* the header (dblclick), whatever the pane's display
minimize(p, type) ==
  /\ pane[p].minMaxBtn
  /\ InDocument(pane[p])
  /\ Len(minStorage) < MaxRegistry
  /\ Len(minimizeZone) < MaxChildren
  /\ LET stored == storeMinimizedElement(Manager, p)
         checked == deleteDuplicatedItemsMinStorage(stored)
         m == IF IsDuplicated(stored) THEN checked ELSE minimizeUI(checked, areaWidth)
     IN /\ SetManager(m)
        /\ pane' = IF IsDuplicated(stored) \/ m.threw THEN pane
                   ELSE [pane EXCEPT ![p].display = "none"]
  /\ UNCHANGED <<hasMinimizeZone, globalElement, viewport, maxStorage, areaWidth, session>>

\* the user clicks the minimize button or double-clicks the header of a
\* pane that is displayed
Minimize(p, type) == pane[p].display = "shown" /\ minimize(p, type)

\* maximize(): click on a minimized representation
RepClick(path) ==
  /\ path \in RepPaths(minimizeZone)
  /\ LET r == maximize(Manager, path, pane)
     IN /\ SetManager(r.m)
        /\ pane' = IF r.shown = 0 THEN pane ELSE [pane EXCEPT ![r.shown].display = "shown"]
  /\ UNCHANGED <<hasMinimizeZone, globalElement, viewport, maxStorage, areaWidth, session>>

\* btn.onclick of the dropdown button at position i of the area: the list
\* created with it, its next sibling, is shown or hidden
DropdownBtnClick(i) ==
  /\ i \in 1 .. Len(minimizeZone) - 1
  /\ minimizeZone[i].kind = "btn"
  /\ minimizeZone[i + 1].kind = "list"
  /\ minimizeZone' = [minimizeZone EXCEPT ![i + 1].display =
                                           IF @ = "block" THEN "none" ELSE "block"]
  /\ threw' = FALSE
  /\ UNCHANGED <<hasMinimizeZone, globalElement, viewport, pane, maxStorage, minStorage,
                 count, dropdown, numItems, elementWidth, areaWidth, session>>

\* window.onresize = onWindowResize, the body and the area having new sizes
\* (minimizeArea is null while no area exists: reading a property of it throws)
onWindowResize(vp, aw) ==
  /\ Len(minimizeZone) < MaxChildren
  /\ viewport' = vp
  /\ areaWidth' = aw
  /\ pane' = resizeOnWindowChange(pane, vp)
  /\ SetManager(IF hasMinimizeZone
                THEN updateMinimizedItemsOnWindowChange(Manager, aw)
                ELSE [Manager EXCEPT !.threw = TRUE])
  /\ UNCHANGED <<hasMinimizeZone, globalElement, maxStorage, session>>

\* window.onload = onWindowLoad: the containment pass only, with the size
\* the body has; the minimized items are not updated
onWindowLoad ==
  /\ pane' = resizeOnWindowChange(pane, viewport)
  /\ threw' = FALSE
  /\ UNCHANGED <<hasMinimizeZone, globalElement, viewport, maxStorage, overflowVars,
                 areaWidth, session>>

\* ------------------------------------------------------------ initial states
initialResizeCssProperties_both(w, h) ==
  [w |-> IF w = 0 \/ h = 0 THEN DefaultWidth ELSE w,
   h |-> IF w = 0 \/ h = 0 THEN DefaultHeight ELSE h]

\* interactive(id): resizable() wraps the element in a grid whose tracks
\* take the element's computed size and gives the wrapper z-index 1; the
\* element itself gets z-index 'inherit'
\* initialResizeCssProperties: a computed size of 0px is replaced
initialResizeCssProperties(w, h) ==
  [w |-> IF w = 0 THEN DefaultWidth ELSE w, h |-> IF h = 0 THEN DefaultHeight ELSE h]

\* the pane after interactive(id, config), from the element's computed
\* position, size and margin
RegisteredWith(config, left, top, w, h, margin) ==
  [left |-> left, top |-> top,
   width |-> IF config.resize THEN Px(initialResizeCssProperties(w, h).w) ELSE Px(w),
   height |-> IF config.resize THEN Px(initialResizeCssProperties(w, h).h) ELSE Px(h),
   gridCol |-> IF config.resize THEN initialResizeCssProperties(w, h).w ELSE 0,
   gridRow |-> IF config.resize THEN initialResizeCssProperties(w, h).h ELSE 0,
   margin |-> margin, display |-> "shown",
   zIndex |-> IF config.resize THEN BackTier ELSE Inherit,
   attached |-> TRUE,
   wrapper |-> config.resize, header |-> config.drag,
   closeBtn |-> config.close, minMaxBtn |-> config.minMax,
   removed |-> FALSE, innerLeft |-> 0, innerTop |-> 0]

Registered(p, left, top, w, h, margin) ==
  RegisteredWith(InitConfig(p), left, top, w, h, margin)

EmptyObject == [x \in {} |-> 0]
Buttons == {PrimaryButton, 3}
EventTypes == {"click", "dblclick"}

InitManager ==
  /\ maxStorage = EmptyObject
  /\ minStorage = <<>>
  /\ count = Undefined
  /\ dropdown = FALSE
  /\ numItems = Undefined
  /\ elementWidth = Undefined
  /\ minimizeZone = <<>>
  /\ session = NoSession
  /\ threw = FALSE
  /\ globalElement = NoElement

\* outer box of a pane as registered: the wrapper adds the two resize points
OuterSize(p, n) == IF InitConfig(p).resize THEN n + EdgeMargin ELSE n

\* the area widths: capacities 0 .. MaxCapacity for the strip items
AreaWidths == {ItemOuterWidth * k + ItemOuterWidth \div 2 : k \in 0 .. MaxCapacity}

\* ---- geometry: two panes (one resizable, one not) inside a small viewport
GeomPanes == {1, 2}
GeomViewport == [w |-> 12, h |-> 12]
GeomSizes(p) == IF InitConfig(p).resize THEN {5} ELSE {10}
\* the margin the stylesheet gives a pane: none or one pixel; a wrapper is
\* created without one
GeomMargins(p) == IF InitConfig(p).resize THEN {0} ELSE {0, 1}

\* every pane's box (offsetLeft = style.left + margin) starts inside the body
InitGeom ==
  /\ viewport = GeomViewport
  /\ areaWidth \in {ItemOuterWidth * 2}
  /\ \E l, t \in [GeomPanes -> 0 .. 1], w, h \in [GeomPanes -> 5 .. 10],
        m \in [GeomPanes -> 0 .. 1] :
       /\ \A p \in GeomPanes :
            /\ w[p] \in GeomSizes(p) /\ h[p] \in GeomSizes(p)
            /\ m[p] \in GeomMargins(p)
            /\ l[p] + m[p] + OuterSize(p, w[p]) <= viewport.w
            /\ t[p] + m[p] + OuterSize(p, h[p]) <= viewport.h
       /\ pane = [p \in Panes |->
                    IF p \in GeomPanes THEN Registered(p, l[p], t[p], w[p], h[p], m[p])
                    ELSE NoPane]
  /\ hasMinimizeZone = TRUE
  /\ InitManager

\* a move step writes style.left = offsetLeft - dx, so a pane with a margin
\* goes right and down by its margin on every pointer-move of a move
\* session: its offsets are capped
InsideDriftOffset(ps) ==
  \A p \in Panes :
     ps[p].margin > 0 => (ps[p].left <= MaxDriftOffset /\ ps[p].top <= MaxDriftOffset)

MouseDown ==
  \E p \in Panes, which \in Buttons :
     \/ MouseDownBody(p, which)
     \/ \E x, y \in PointerRange : MouseDownDragPoint(p, which, x, y)
     \/ \E x, y \in PointerRange, resizePoint \in ResizePoints :
           MouseDownResizePoint(p, resizePoint, which, x, y)

NextGeom ==
  \/ MouseDown
  \/ \E x, y \in PointerRange : MouseMove(x, y) /\ InsideDriftOffset(pane')
  \/ dragMouseStop

SpecGeom == InitGeom /\ [][NextGeom]_vars

\* ---- geometry, the button that started a session being released in the
\* end: the mouseup reaches document.onmouseup
SpecGeomFair == SpecGeom /\ WF_vars(dragMouseStop)

\* ---- geometry under window resizes
WinViewports ==
  {[w |-> 12, h |-> 12], [w |-> 13, h |-> 12], [w |-> 11, h |-> 12], [w |-> 12, h |-> 11]}

NextWin ==
  \/ NextGeom
  \/ \E vp \in WinViewports : onWindowResize(vp, areaWidth)
  \/ onWindowLoad

SpecWin == InitGeom /\ [][NextWin]_vars

\* ---- geometry under a window that shrinks by more than one pixel: one
\* resizable pane, registered inside the wide body
ShrunkViewports == {[w |-> 16, h |-> 12], [w |-> 13, h |-> 12]}

InitShrunk ==
  /\ viewport = [w |-> 16, h |-> 12]
  /\ areaWidth = ItemOuterWidth * 2
  /\ \E l \in 0 .. 3, t \in 0 .. 1 :
       pane = [p \in Panes |-> IF p = 1 THEN Registered(1, l, t, 7, 5, 0) ELSE NoPane]
  /\ hasMinimizeZone = TRUE
  /\ InitManager

NextShrunk ==
  \/ NextGeom
  \/ \E vp \in ShrunkViewports : onWindowResize(vp, areaWidth)
  \/ onWindowLoad

SpecShrunk == InitShrunk /\ [][NextShrunk]_vars

\* ---- geometry under a window that becomes narrower or shorter than the
\* smallest wrapper (5 + 6)
NarrowViewports == {[w |-> 12, h |-> 12], [w |-> 9, h |-> 12], [w |-> 12, h |-> 9]}

NextNarrow ==
  \/ NextGeom
  \/ \E vp \in NarrowViewports : onWindowResize(vp, areaWidth)
  \/ onWindowLoad

SpecNarrow == InitGeom /\ [][NextNarrow]_vars

\* ---- geometry with the maximize button: pointer sessions on panes that
\* are, or have been, maximized
\* resize steps that start from the '100%' width move a pane further right
\* after every maximize and restore: the offsets are capped
InsideMaxOffset(ps) == \A p \in Panes : ps[p].left <= MaxOffset /\ ps[p].top <= MaxOffset

\* the pointer stays on the line y = 0 and takes the left and right points
NextMaxResize ==
  \/ \E p \in Panes, which \in Buttons, x \in PointerRange :
        \/ MouseDownBody(p, which)
        \/ MouseDownDragPoint(p, which, x, 0)
        \/ \E resizePoint \in {"left", "right"} :
              MouseDownResizePoint(p, resizePoint, which, x, 0)
  \/ \E x \in PointerRange : MouseMove(x, 0) /\ InsideMaxOffset(pane')
  \/ dragMouseStop
  \/ \E p \in Panes : MaxBtnClick(p)

InitMaxResize ==
  /\ viewport = GeomViewport
  /\ areaWidth = ItemOuterWidth * 2
  /\ pane = [p \in Panes |->
               IF p = 1 THEN Registered(1, 0, 0, 5, 5, 0)
               ELSE IF p = 2 THEN Registered(2, 0, 0, 10, 10, 0)
               ELSE NoPane]
  /\ hasMinimizeZone = TRUE
  /\ InitManager

SpecMaxResize == InitMaxResize /\ [][NextMaxResize]_vars

\* ---- life cycle: every pane registered, viewport and area fixed
LifeViewport == [w |-> 30, h |-> 20]
\* the margin the stylesheet gives a pane; a wrapper is created without one
LifeMargin(p) == IF InitConfig(p).resize THEN 0 ELSE p

InitLife ==
  /\ viewport = LifeViewport
  /\ areaWidth \in AreaWidths
  /\ pane = [p \in Panes |-> Registered(p, p, 2 * p, 6 + p, 5 + p, LifeMargin(p))]
  /\ hasMinimizeZone = TRUE
  /\ InitManager

NextLife ==
  \/ \E p \in Panes, which \in Buttons : MouseDownBody(p, which)
  \/ \E p \in Panes : MaxBtnClick(p)
  \/ \E p \in Panes : CloseBtnClick(p)
  \/ \E p \in Panes, type \in EventTypes : Minimize(p, type)
  \/ \E path \in RepPaths(minimizeZone) : RepClick(path)
  \/ \E i \in 1 .. MaxChildren : DropdownBtnClick(i)

SpecLife == InitLife /\ [][NextLife]_vars

\* ---- overflow: minimize, restore and window resizes that change the area
NextOverflow ==
  \/ \E p \in Panes, type \in EventTypes : Minimize(p, type)
  \/ \E path \in RepPaths(minimizeZone) : RepClick(path)
  \/ \E i \in 1 .. MaxChildren : DropdownBtnClick(i)
  \/ \E aw \in AreaWidths : onWindowResize(viewport, aw)
  \/ onWindowLoad

SpecOverflow == InitLife /\ [][NextOverflow]_vars

\* ---- minimize requests for any pane in the document, also one that is
\* already hidden (minBtn.click(), a dispatched dblclick), and restores
NextRequests ==
  \/ \E p \in Panes, type \in EventTypes : minimize(p, type)
  \/ \E path \in RepPaths(minimizeZone) : RepClick(path)
  \/ \E i \in 1 .. MaxChildren : DropdownBtnClick(i)

SpecRequests == InitLife /\ [][NextRequests]_vars

\* ---- registration: the elements are in the document with their computed
\* style and interactive(id, config) is called for them one after the other
\* an element no registering function has been called for
Unregistered(p) ==
  /\ ~pane[p].attached /\ pane[p].display = "shown"
  /\ pane[p].gridCol = 0 /\ pane[p].gridRow = 0 /\ pane[p].zIndex = Inherit
  /\ ~pane[p].wrapper /\ ~pane[p].header /\ ~pane[p].closeBtn /\ ~pane[p].minMaxBtn
  /\ InDocument(pane[p])

\* the configs: every field is false or is not false (a missing config is
\* the config with no field set to false); the options minZone, minMaxIcons
\* and minDoubleClick are left undefined
Configs == [resize : BOOLEAN, drag : BOOLEAN, close : BOOLEAN, minMax : BOOLEAN]

\* interactive(id, config): resizable() wraps the element, and the wrapper
\* takes the element's computed top and left and has no margin of its own;
\* draggable() adds the header, close() and minMax() add their buttons, and
\* minMax() creates the minimize area when there is none
interactive(p, config) ==
  /\ Unregistered(p)
  /\ pane' = [pane EXCEPT ![p] =
                RegisteredWith(config, pane[p].left, pane[p].top,
                               pane[p].width.n, pane[p].height.n,
                               IF config.resize THEN 0 ELSE pane[p].margin)]
  /\ threw' = FALSE
  /\ hasMinimizeZone' = (hasMinimizeZone \/ config.minMax)
  /\ UNCHANGED <<globalElement, viewport, maxStorage, overflowVars, areaWidth, session>>

ComputedSizes == {0, 7}

InitRegister ==
  /\ viewport = LifeViewport
  /\ areaWidth = ItemOuterWidth * MaxCapacity
  /\ \E w, h \in [Panes -> ComputedSizes] :
       pane = [p \in Panes |->
                 [NoPane EXCEPT !.display = "shown", !.left = p, !.top = p,
                                !.width = Px(w[p]), !.height = Px(h[p])]]
  /\ hasMinimizeZone = FALSE
  /\ InitManager

\* the configs the pages of this specification use: the default one, and
\* those that set one field to false
RegisterConfigs ==
  {DefaultConfig} \cup {[DefaultConfig EXCEPT ![f] = FALSE] : f \in DOMAIN DefaultConfig}

NextRegister ==
  \/ \E p \in Panes, config \in RegisterConfigs : interactive(p, config)
  \/ \E p \in Panes, which \in Buttons : MouseDownBody(p, which)
  \/ \E p \in Panes : MaxBtnClick(p)

SpecRegister == InitRegister /\ [][NextRegister]_vars

\* ---- the standalone builds (draggable.js and the resizable build): the
\* page calls resizable(id) and draggable(id) for its elements, each at most
\* once per element and in any order, and the user drags headers and resize
\* points.  Both functions assign the undeclared variable element.

\* resizable(id): the element is wrapped; the wrapper takes the element's
\* computed top and left and z-index 1, the element gets top and left 0px;
\* the variable element is left on the element
resizable(p) ==
  /\ pane[p].display = "shown"
  /\ ~pane[p].wrapper
  /\ LET q == pane[p]
         size == initialResizeCssProperties(q.width.n, q.height.n)
     IN pane' = [pane EXCEPT ![p] =
                   [q EXCEPT !.attached = TRUE, !.wrapper = TRUE, !.zIndex = BackTier,
                             !.gridCol = size.w, !.gridRow = size.h,
                             !.width = Px(size.w), !.height = Px(size.h),
                             !.margin = 0, !.innerLeft = 0, !.innerTop = 0]]
  /\ globalElement' = [id |-> p, node |-> "element"]
  /\ threw' = FALSE
  /\ UNCHANGED <<hasMinimizeZone, viewport, maxStorage, overflowVars, areaWidth, session>>

\* draggable(id): the element gets its header; the variable element is left
\* on the wrapper when the element is in one, and on the element otherwise
draggable(p) ==
  /\ pane[p].display = "shown"
  /\ ~pane[p].header
  /\ pane' = [pane EXCEPT ![p].attached = TRUE, ![p].header = TRUE]
  /\ globalElement' = [id |-> p, node |-> IF pane[p].wrapper THEN "parent" ELSE "element"]
  /\ threw' = FALSE
  /\ UNCHANGED <<hasMinimizeZone, viewport, maxStorage, overflowVars, areaWidth, session>>

\* drag(element): the closure keeps the node it was called with (zone holds
\* which node of the pane it is) and the pointer position
drag(element, x, y) ==
  [action |-> "drag", target |-> element.id, zone |-> element.node, x1 |-> x, y1 |-> y]

\* resize(element, parent, resizePoint) of the resizable build
resize(p, resizePoint, x, y) ==
  [action |-> "resize", target |-> p, zone |-> resizePoint, x1 |-> x, y1 |-> y]

\* dragPoint.onmousedown of pane p's header: drag(element) with the value
\* the variable element has when the event is handled
dragPointOnmousedown(p, which, x, y) ==
  /\ Visible(p)
  /\ pane[p].header
  /\ session' = IF which = PrimaryButton THEN drag(globalElement, x, y) ELSE session
  /\ threw' = FALSE
  /\ UNCHANGED <<hasMinimizeZone, globalElement, viewport, pane, maxStorage, overflowVars,
                 areaWidth>>

\* resizePoint.onmousedown of a resize point of pane p's wrapper: the
\* handler keeps the element and the wrapper it was created for
resizePointOnmousedown(p, resizePoint, which, x, y) ==
  /\ Visible(p)
  /\ pane[p].wrapper
  /\ session' = IF which = PrimaryButton THEN resize(p, resizePoint, x, y) ELSE session
  /\ threw' = FALSE
  /\ UNCHANGED <<hasMinimizeZone, globalElement, viewport, pane, maxStorage, overflowVars,
                 areaWidth>>

\* getElementOffsetAndMeasures(element) of draggable.js for a node of pane
\* q: the wrapper, the element inside its wrapper, or the element alone
getNodeOffsetAndMeasures(q, node) ==
  IF ~Rendered(q) THEN [left |-> 0, top |-> 0, height |-> 0, width |-> 0]
  ELSE IF node = "parent"
  THEN [left |-> q.left + q.margin, top |-> q.top + q.margin,
        height |-> q.gridRow + 2 * PointSize, width |-> q.gridCol + 2 * PointSize]
  ELSE IF q.wrapper
  THEN [left |-> q.innerLeft, top |-> q.innerTop, height |-> q.height.n, width |-> q.width.n]
  ELSE [left |-> q.left + q.margin, top |-> q.top + q.margin,
        height |-> q.height.n, width |-> q.width.n]

\* getDragNewPosition(ele, mouseDrag) of draggable.js
getNodeDragNewPosition(q, node, mouseDrag, vp) ==
  LET element == getNodeOffsetAndMeasures(q, node)
      newPosition == [x |-> element.left - mouseDrag.x, y |-> element.top - mouseDrag.y]
      boundaries == [left |-> newPosition.x, top |-> newPosition.y,
                     right |-> newPosition.x + element.width,
                     bottom |-> newPosition.y + element.height]
  IN preventDragOutsideScreen(element, newPosition, boundaries, vp)

\* the body of the closure of drag(element): style.left and style.top of the
\* node are written
dragNode(q, node, mouseDrag, vp) ==
  LET newPosition == getNodeDragNewPosition(q, node, mouseDrag, vp)
  IN IF node = "element" /\ q.wrapper
     THEN [q EXCEPT !.innerLeft = newPosition.x, !.innerTop = newPosition.y]
     ELSE [q EXCEPT !.left = newPosition.x, !.top = newPosition.y]

\* a mousemove event on the document: the closure installed by drag or by
\* resize runs; while document.onmousemove is null no handler runs
documentOnmousemove(x2, y2) ==
  IF session.action = "none" THEN UNCHANGED vars
  ELSE
    /\ LET mouseDrag == [x |-> session.x1 - x2, y |-> session.y1 - y2]
           p == session.target
       IN pane' = [pane EXCEPT ![p] =
                     IF session.action = "resize"
                     THEN changeElementSizeAndPosition(pane[p], session.zone, mouseDrag,
                                                       viewport)
                     ELSE dragNode(pane[p], session.zone, mouseDrag, viewport)]
    /\ session' = [session EXCEPT !.x1 = x2, !.y1 = y2]
    /\ threw' = FALSE
    /\ UNCHANGED <<hasMinimizeZone, globalElement, viewport, maxStorage, overflowVars,
                   areaWidth>>

\* window.onresize = resizeOnWindowChange and window.onload =
\* resizeOnWindowChange of the resizable build: the handler runs with the
\* size the body has then (vp = viewport for the load event)
windowOnresize(vp) ==
  /\ viewport' = vp
  /\ pane' = resizeOnWindowChange(pane, vp)
  /\ threw' = FALSE
  /\ UNCHANGED <<hasMinimizeZone, globalElement, maxStorage, overflowVars, areaWidth,
                 session>>

StandaloneViewports == {GeomViewport, [w |-> 11, h |-> 12]}
StandalonePointer == 0 .. 1

InitStandalone ==
  /\ viewport = GeomViewport
  /\ areaWidth = ItemOuterWidth * 2
  /\ pane = [p \in Panes |->
               [NoPane EXCEPT !.display = "shown",
                              !.width = Px(IF p % 2 = 1 THEN 5 ELSE 10),
                              !.height = Px(IF p % 2 = 1 THEN 5 ELSE 10)]]
  /\ hasMinimizeZone = FALSE
  /\ InitManager

\* the positions explored: no node is moved further than MaxNodeOffset from
\* the left edge of its container
InsideNodeOffset(ps) ==
  \A p \in Panes : ps[p].left <= MaxNodeOffset /\ ps[p].innerLeft <= MaxNodeOffset

\* the pointer stays on the line y = 0 and the left and right resize points
\* are used, which keeps the panes' vertical geometry as registered
NextStandalone ==
  \/ \E p \in Panes : resizable(p)
  \/ \E p \in Panes : draggable(p)
  \/ \E p \in Panes, which \in Buttons, x \in StandalonePointer :
        dragPointOnmousedown(p, which, x, 0)
  \/ \E p \in Panes, resizePoint \in {"left", "right"}, which \in Buttons, x \in StandalonePointer :
        resizePointOnmousedown(p, resizePoint, which, x, 0)
  \/ \E x \in StandalonePointer : documentOnmousemove(x, 0) /\ InsideNodeOffset(pane')
  \/ dragMouseStop
  \/ \E vp \in StandaloneViewports : windowOnresize(vp)

SpecStandalone == InitStandalone /\ [][NextStandalone]_vars

\* ---- the minMaxClose build (minMaxClose.js lines 1-733): elements that
\* are neither draggable nor resizable get the buttons, and the resize
\* handler of the window updates the minimized items only.  Its handlers
\* of the buttons and of the representations are those of the combined
\* build.

\* the configs of minMaxClose(id, config); the options closeIcon, minZone,
\* minMaxIcons and minDoubleClick are left undefined
MinMaxCloseConfigs == [close : BOOLEAN, minMax : BOOLEAN]

\* minMaxClose(id, config): close() and minMax() add their buttons to the
\* element, minMax() creates the minimize area when there is none
minMaxClose(p, config) ==
  /\ Unregistered(p)
  /\ pane' = [pane EXCEPT ![p].closeBtn = config.close, ![p].minMaxBtn = config.minMax]
  /\ hasMinimizeZone' = (hasMinimizeZone \/ config.minMax)
  /\ threw' = FALSE
  /\ UNCHANGED <<globalElement, viewport, maxStorage, overflowVars, areaWidth, session>>

\* window.onresize = updateMinimizedItemsOnWindowChange, the body and the
\* area having new sizes; no pane is touched
windowOnresizeMinMaxClose(vp, aw) ==
  /\ Len(minimizeZone) < MaxChildren
  /\ viewport' = vp
  /\ areaWidth' = aw
  /\ SetManager(IF hasMinimizeZone
                THEN updateMinimizedItemsOnWindowChange(Manager, aw)
                ELSE [Manager EXCEPT !.threw = TRUE])
  /\ UNCHANGED <<hasMinimizeZone, globalElement, pane, maxStorage, session>>

MinMaxCloseAreaWidths == {ItemOuterWidth \div 2, ItemOuterWidth * 2 + ItemOuterWidth \div 2}

InitMinMaxClose ==
  /\ viewport = LifeViewport
  /\ areaWidth = ItemOuterWidth \div 2
  /\ pane = [p \in Panes |->
               [NoPane EXCEPT !.display = "shown", !.left = p, !.top = 2 * p,
                              !.width = Px(6 + p), !.height = Px(5 + p),
                              !.margin = p % 2]]
  /\ hasMinimizeZone = FALSE
  /\ InitManager

\* the page calls minMaxClose for two of its elements and asks for the
\* minimize and maximize buttons of the first one only
MinMaxClosePanes == {1, 2}
PageConfigs(p) == IF p = 1 THEN MinMaxCloseConfigs ELSE {c \in MinMaxCloseConfigs : ~c.minMax}

NextMinMaxClose ==
  \/ \E p \in MinMaxClosePanes : \E config \in PageConfigs(p) : minMaxClose(p, config)
  \/ \E p \in Panes : MaxBtnClick(p)
  \/ \E p \in Panes : CloseBtnClick(p)
  \/ \E p \in Panes, type \in EventTypes : Minimize(p, type)
  \/ \E path \in RepPaths(minimizeZone) : RepClick(path)
  \/ \E i \in 1 .. MaxChildren : DropdownBtnClick(i)
  \/ \E aw \in MinMaxCloseAreaWidths : windowOnresizeMinMaxClose(viewport, aw)

SpecMinMaxClose == InitMinMaxClose /\ [][NextMinMaxClose]_vars

\* ---- window events from the load of the script on, before and between
\* the calls of interactive(id)
NextEarlyResize ==
  \/ NextRegister
  \/ onWindowResize(viewport, areaWidth)
  \/ onWindowLoad

\* the elements have a computed size
InitEarlyResize ==
  /\ InitRegister
  /\ \A p \in Panes : pane[p].width = Px(7) /\ pane[p].height = Px(7)

SpecEarlyResize == InitEarlyResize /\ [][NextEarlyResize]_vars

\* ---- every event
Init == InitLife

Next ==
  \/ NextLife
  \/ MouseDown
  \/ \E x, y \in PointerRange : MouseMove(x, y)
  \/ dragMouseStop
  \/ \E vp \in WinViewports \cup {LifeViewport}, aw \in AreaWidths : onWindowResize(vp, aw)
  \/ onWindowLoad

Spec == Init /\ [][Next]_vars

\* =================================================================== claims
Attached == {p \in Panes : pane[p].attached}

\* the committed rectangle of a pane: its positioned box (the wrapper of a
\* resizable pane)
RectX(p) == pane[p].left + pane[p].margin
RectY(p) == pane[p].top + pane[p].margin
RectWidth(p) == IF IsResizable(p) THEN pane[p].gridCol + EdgeMargin ELSE pane[p].width.n
RectHeight(p) == IF IsResizable(p) THEN pane[p].gridRow + EdgeMargin ELSE pane[p].height.n

\* C1: with a fixed viewport and panes that start inside it, after any
\* sequence of move and resize steps every pane's rectangle lies inside the
\* viewport: 0 <= x, 0 <= y, x + width <= viewport width, y + height <=
\* viewport height.
Containment ==
  \A p \in Attached :
     /\ 0 <= RectX(p)
     /\ 0 <= RectY(p)
     /\ RectX(p) + RectWidth(p) <= viewport.w
     /\ RectY(p) + RectHeight(p) <= viewport.h

\* C2: no resize step and no window-resize pass commits a width or height
\* below 5; a resize step whose new width (height) would be below 5 changes
\* neither the size nor the offset on that axis.
MinSizeHolds ==
  \A p \in Attached :
     IsResizable(p) =>
       /\ parseIntSlice(pane[p].width) >= MinSize /\ pane[p].gridCol >= MinSize
       /\ parseIntSlice(pane[p].height) >= MinSize /\ pane[p].gridRow >= MinSize

\* a pointer-move of a resize session: the session stays attached and takes
\* the event's position as its new x1, y1
TooSmallStepIsNoOp ==
  (/\ session.action = "resize"
   /\ session' = [session EXCEPT !.x1 = session'.x1, !.y1 = session'.y1]
   /\ viewport' = viewport) =>
     LET p == session.target
         zone == getResizePointZone(session.zone)
         dx == session.x1 - session'.x1
         dy == session.y1 - session'.y1
         newWidth == parseIntSlice(pane[p].width) + (IF zone[1] = 1 THEN 0 - dx ELSE dx)
         newHeight == parseIntSlice(pane[p].height) + (IF zone[2] = 3 THEN 0 - dy ELSE dy)
     IN /\ (zone[1] # Undefined /\ newWidth < MinSize) =>
             /\ pane'[p].left = pane[p].left
             /\ pane'[p].width = pane[p].width
             /\ pane'[p].gridCol = pane[p].gridCol
        /\ (zone[2] # Undefined /\ newHeight < MinSize) =>
             /\ pane'[p].top = pane[p].top
             /\ pane'[p].height = pane[p].height
             /\ pane'[p].gridRow = pane[p].gridRow

MinimumSize == []MinSizeHolds /\ [][TooSmallStepIsNoOp]_vars

\* the window has been narrowed to 11 and the pass has left pane 1 at the
\* floor size, during a resize session on its left point
MinimumSizeWitness ==
  /\ viewport.w = 11
  /\ pane[1].gridCol = MinSize /\ pane[1].left = 0
  /\ session.action = "resize" /\ session.zone = "left" /\ session.target = 1

\* C3: for a pane in Normal state, firing the maximize button twice gives
\* back top, left, width and height (and the wrapper's grid tracks) as they
\* were before the first firing, and leaves no snapshot behind.
Normal(p) == Visible(p) /\ p \notin DOMAIN maxStorage

BoxWidth(p, q) == IF IsResizable(p) THEN q.gridCol ELSE q.width.n
BoxHeight(p, q) == IF IsResizable(p) THEN q.gridRow ELSE q.height.n

MaximizeRestoreRoundTrip ==
  \A p \in Panes :
     Normal(p) =>
       LET first == maxBtnOnclick(p, pane[p], maxStorage, viewport)
           second == maxBtnOnclick(p, first.q, first.store, viewport)
       IN /\ p \in DOMAIN first.store
          /\ second.q.top = pane[p].top
          /\ second.q.left = pane[p].left
          /\ BoxWidth(p, second.q) = BoxWidth(p, pane[p])
          /\ BoxHeight(p, second.q) = BoxHeight(p, pane[p])
          /\ second.q.gridCol = pane[p].gridCol
          /\ second.q.gridRow = pane[p].gridRow
          /\ second.store = maxStorage

\* pane 1 has been maximized and restored (its element keeps the 100% that
\* maximize wrote) while pane 2 is maximized
MaximizeRestoreWitness ==
  /\ Normal(1)
  /\ pane[1].width = Percent(100)
  /\ pane[1].gridCol = 7 /\ pane[1].left = 1 /\ pane[1].top = 2
  /\ Visible(2) /\ 2 \in DOMAIN maxStorage

\* C4: in strip mode, restoring the entry at index i of a registry of n
\* entries leaves the other n-1 entries in their order, and the rendered
\* representations have exactly the ids 0..n-2, the representation with id j
\* being the one of the entry in slot j.
Aligned(zone, storage) ==
  /\ Len(zone) = Len(storage)
  /\ \A j \in 1 .. Len(zone) :
        /\ zone[j].kind = "item"
        /\ zone[j].id = j - 1
        /\ storage[j] # Empty
        /\ zone[j].title = storage[j].title

StripRestore(i) ==
  /\ ~dropdown
  /\ i \in 1 .. Len(minimizeZone)
  /\ minimizeZone[i].kind = "item"
  /\ minimizeZone[i].id + 1 \in 1 .. Len(minStorage)
  /\ minStorage[minimizeZone[i].id + 1] # Empty
  /\ RepClick(<<i>>)

RegistryReindexingStep ==
  \A i \in 1 .. MaxChildren + 1 :
     StripRestore(i) =>
        /\ minStorage' = RemoveAt(minStorage, minimizeZone[i].id + 1)
        /\ Aligned(minimizeZone', minStorage')

RegistryReindexing == [][RegistryReindexingStep]_vars

\* the capacity of the strip and the number of minimized panes
Capacity == areaWidth \div ItemOuterWidth
Live == Cardinality({i \in 1 .. Len(minStorage) : minStorage[i] # Empty})

\* C5: for every capacity k >= 0 the manager is in dropdown mode exactly
\* when more than k panes are minimized: from an empty registry the
\* (k+1)-th insertion switches to the dropdown, not earlier and not later,
\* and a restore that leaves k or fewer minimized panes switches back to
\* the strip.
ModeBoundary == dropdown <=> Live > Capacity

\* C6: after a pointer-down handled for pane P, P has the front tier and
\* every other pane in the document has the back tier (1 on a wrapper,
\* 'inherit' otherwise); in every state at most one pane has the front tier.
BackTierOf(p) == IF IsResizable(p) THEN BackTier ELSE Inherit

AtMostOneFront ==
  Cardinality({p \in Attached : pane[p].zIndex = FrontTier}) <= 1

PointerDownPromotes ==
  \A p \in Panes :
     (\E which \in Buttons :
         \/ MouseDownBody(p, which)
         \/ MouseDownDragPoint(p, which, session'.x1, session'.y1)) =>
        /\ pane'[p].zIndex = FrontTier
        /\ \A r \in Panes \ {p} : pane'[r].attached => pane'[r].zIndex = BackTierOf(r)

ZOrderExclusivity == []AtMostOneFront /\ [][PointerDownPromotes]_vars

\* pane 2 is in front and pane 1 on tier 1, after pane 3 was closed in front
ZOrderWitness ==
  /\ pane[2].zIndex = FrontTier
  /\ pane[1].zIndex = BackTier /\ pane[1].attached
  /\ ~pane[3].attached /\ pane[3].zIndex = FrontTier

\* C7: a primary-button pointer-down on any affordance of pane P (body,
\* drag handle, any of the eight resize points) gives P the front tier.
PromotionStep ==
  \A p \in Panes :
     (\E x, y \in PointerRange :
         \/ MouseDownBody(p, PrimaryButton)
         \/ MouseDownDragPoint(p, PrimaryButton, x, y)
         \/ \E resizePoint \in ResizePoints :
               MouseDownResizePoint(p, resizePoint, PrimaryButton, x, y)) =>
        pane'[p].zIndex = FrontTier

PromotionOnEveryAffordance == [][PromotionStep]_vars

\* C8: once a pane is closed, maxStorage holds no snapshot for it and
\* minStorage holds no entry for it.
InRegistry(p) == \E i \in 1 .. Len(minStorage) : minStorage[i].id = p

NoLeakOnClose ==
  \A p \in Panes :
     (~pane[p].attached) => (p \notin DOMAIN maxStorage /\ ~InRegistry(p))

\* C9: no pane has an entry in minStorage and a snapshot in maxStorage at
\* the same time.
MinimizedMaximizedExclusive ==
  \A p \in Panes : ~(InRegistry(p) /\ p \in DOMAIN maxStorage)

\* C10: after one window-resize event to a viewport of at least 11 x 11,
\* every resizable pane has offsetLeft + width + 6 <= viewport width and
\* offsetTop + height + 6 <= viewport height, with width and height >= 5.
ShrinkStep ==
  \A vp \in WinViewports :
     (vp.w >= MinSize + EdgeMargin /\ vp.h >= MinSize + EdgeMargin
        /\ onWindowResize(vp, areaWidth)) =>
        \A p \in Panes :
           (pane'[p].attached /\ IsResizable(p)) =>
              /\ offsetLeft(pane'[p]) + parseIntSlice(pane'[p].width) + EdgeMargin <= vp.w
              /\ offsetTop(pane'[p]) + parseIntSlice(pane'[p].height) + EdgeMargin <= vp.h
              /\ parseIntSlice(pane'[p].width) >= MinSize
              /\ parseIntSlice(pane'[p].height) >= MinSize

ViewportShrinkContainment == [][ShrinkStep]_vars

\* C11: on each window-resize event the containment check reaches every
\* pane in the document, resizable or not: a displayed pane that sticks out
\* of the new viewport on the right or at the bottom is shrunk or shifted by
\* the event.
SticksOut(p, vp) ==
  /\ Visible(p)
  /\ \/ RectX(p) + RectWidth(p) > vp.w
     \/ RectY(p) + RectHeight(p) > vp.h

ResizeCoverageStep ==
  \A vp \in WinViewports :
     onWindowResize(vp, areaWidth) =>
        \A p \in Panes : SticksOut(p, vp) => pane'[p] # pane[p]

ViewportResizeCoverage == [][ResizeCoverageStep]_vars

\* a pointer-move handled by a session of the given kind
SessionMove(kind) ==
  /\ session.action = kind
  /\ MouseMove(session'.x1, session'.y1)

\* C12: a move step with delta (dx, dy) commits x - dx when 0 <= x - dx and
\* x - dx + w <= W, and otherwise exactly the old x (never the edge); y is
\* decided in the same way from dy, h and H, independently of x.
MoveStepPerAxis ==
  SessionMove("drag") =>
     LET p == session.target
         x == RectX(p)
         y == RectY(p)
         dx == session.x1 - session'.x1
         dy == session.y1 - session'.y1
     IN /\ pane'[p].left + pane'[p].margin =
             IF 0 <= x - dx /\ x - dx + RectWidth(p) <= viewport.w THEN x - dx ELSE x
        /\ pane'[p].top + pane'[p].margin =
             IF 0 <= y - dy /\ y - dy + RectHeight(p) <= viewport.h THEN y - dy ELSE y

MoveStepRejection == [][MoveStepPerAxis]_vars

\* C13: a resize step on a zone with a Right component whose new width has
\* offsetLeft + newWidth + 6 > viewport width leaves the pane's left and
\* width unchanged; a zone with a Bottom component whose new height has
\* offsetTop + newHeight + 6 > viewport height leaves top and height unchanged.
RightZones == {"right", "upperRight", "lowerRight"}
BottomZones == {"bottom", "lowerLeft", "lowerRight"}

RightBottomStep ==
  SessionMove("resize") =>
     LET p == session.target
         newWidth == parseIntSlice(pane[p].width) + (session'.x1 - session.x1)
         newHeight == parseIntSlice(pane[p].height) + (session'.y1 - session.y1)
     IN /\ (session.zone \in RightZones
              /\ offsetLeft(pane[p]) + newWidth + EdgeMargin > viewport.w) =>
             /\ pane'[p].left = pane[p].left
             /\ pane'[p].width = pane[p].width
             /\ pane'[p].gridCol = pane[p].gridCol
        /\ (session.zone \in BottomZones
              /\ offsetTop(pane[p]) + newHeight + EdgeMargin > viewport.h) =>
             /\ pane'[p].top = pane[p].top
             /\ pane'[p].height = pane[p].height
             /\ pane'[p].gridRow = pane[p].gridRow

RightBottomRejection == [][RightBottomStep]_vars

\* a session on the lower right point has grown the pane to the right and
\* bottom edges of the body, where any further growth is rejected
RightBottomRejectionWitness ==
  /\ session.action = "resize" /\ session.zone = "lowerRight" /\ session.target = 1
  /\ pane[1].left = 0 /\ pane[1].gridCol = 6
  /\ pane[1].top = 0 /\ pane[1].gridRow = 6

\* the rectangles of all panes
Rects ==
  [p \in Panes |-> <<pane[p].left, pane[p].top, pane[p].width, pane[p].height,
                     pane[p].gridCol, pane[p].gridRow>>]

Idle == session = NoSession

\* C14: a pointer-down on a drag handle or a resize point with a button other
\* than the primary one attaches no listener: an idle controller stays idle,
\* and the pointer-moves that follow change no pane's rectangle.
NonPrimaryDown ==
  \E p \in Panes, which \in Buttons \ {PrimaryButton} :
     \/ MouseDownDragPoint(p, which, 0, 0)
     \/ \E resizePoint \in ResizePoints : MouseDownResizePoint(p, resizePoint, which, 0, 0)

NonPrimaryStaysIdle == (Idle /\ NonPrimaryDown) => Idle'

\* while the controller is idle no pointer event (a pointer-move, or a
\* pointer-down of any button, which at most starts a session) changes a
\* rectangle
IdleMoveChangesNothing == Idle => Rects' = Rects

PrimaryButtonOnly == [][NonPrimaryStaysIdle]_vars /\ [][IdleMoveChangesNothing]_vars

\* the controller is idle after a pointer-down on the header of the resized
\* pane 1 brought it to the front
PrimaryButtonOnlyWitness ==
  /\ Idle
  /\ pane[1].zIndex = FrontTier
  /\ pane[1].gridCol = 6

\* C15: from the active state a pointer-up, wherever the pointer is, detaches
\* both listeners; from then until the next primary pointer-down on a handle
\* the controller stays idle and no rectangle changes; and when the button is
\* released in the end, every session ends.
PrimaryDown ==
  \E p \in Panes :
     \/ MouseDownDragPoint(p, PrimaryButton, session'.x1, session'.y1)
     \/ \E resizePoint \in ResizePoints :
           MouseDownResizePoint(p, resizePoint, PrimaryButton, session'.x1, session'.y1)

UpStep == (~Idle /\ dragMouseStop) => Idle'

IdleUntilDown == (Idle /\ ~PrimaryDown) => (Idle' /\ Rects' = Rects)

SessionEnds == (~Idle) ~> Idle

PointerUpTerminates == [][UpStep]_vars /\ [][IdleUntilDown]_vars /\ SessionEnds

\* a resize session that has widened pane 1 has been ended by a pointer-up
\* and a move session on pane 2 is active
PointerUpTerminatesWitness ==
  /\ pane[1].gridCol = 6 /\ pane[1].gridRow = 6
  /\ session.action = "drag" /\ session.target = 2
  /\ pane[2].top = 2

\* C16: document.onmousemove holds at most one session.  A primary
\* pointer-down that arrives while a session is active replaces it: the
\* session is then the one of the new handle, and each pointer-move changes
\* the rectangle of no pane but that session's target.
NewestSessionWins ==
  \A p \in Panes :
     /\ MouseDownDragPoint(p, PrimaryButton, session'.x1, session'.y1) =>
           (session'.action = "drag" /\ session'.target = p)
     /\ \A resizePoint \in ResizePoints :
           MouseDownResizePoint(p, resizePoint, PrimaryButton, session'.x1, session'.y1) =>
              (session'.action = "resize" /\ session'.target = p
                 /\ session'.zone = resizePoint)

MoveChangesTargetOnly ==
  MouseMove(session'.x1, session'.y1) =>
     \A r \in Panes : r # session.target => pane'[r] = pane[r]

AtMostOneSession == [][NewestSessionWins]_vars /\ [][MoveChangesTargetOnly]_vars

\* a move session on pane 2 is attached after a resize session has grown
\* pane 1 downwards and pane 2 has been moved
AtMostOneSessionWitness ==
  /\ session.action = "drag" /\ session.target = 2
  /\ pane[1].gridRow = 6 /\ pane[1].gridCol = 5
  /\ pane[2].left = 2 /\ pane[2].top = 2

\* C17: minimizing a pane and restoring it, with any minimizes and restores
\* of other panes in between, leaves its left, top, width and height as they
\* were before the minimize, and the pane is displayed again.
Geometry(q) == <<q.left, q.top, q.width, q.height, q.gridCol, q.gridRow, q.margin>>

HidingKeepsGeometry ==
  \A p \in Panes :
     /\ (pane[p].display = "shown" /\ pane'[p].display = "none") =>
           Geometry(pane'[p]) = Geometry(pane[p])
     /\ pane[p].display = "none" =>
           /\ Geometry(pane'[p]) = Geometry(pane[p])
           /\ pane'[p].display \in {"none", "shown"}

\* a restore re-shows the pane whose entry the clicked representation holds
RestoreShows ==
  \A path \in RepPaths(minimizeZone) :
     (RepClick(path) /\ ~threw') =>
        LET index == RepAt(minimizeZone, path).id
        IN pane'[minStorage[index + 1].id].display = "shown"

MinimizeRestoreFrame == [][HidingKeepsGeometry]_vars /\ [][RestoreShows]_vars

\* panes have been minimized and all of them restored: every pane is
\* displayed and the registry is empty again
MinimizeRestoreFrameWitness ==
  /\ count = 1
  /\ minStorage = <<>>
  /\ \A p \in Panes : Visible(p) /\ p \notin DOMAIN maxStorage

\* C18: a minimize request whose entry has the pane id of the entry next to
\* it at the end of the registry is discarded: registry, overflow mode,
\* rendered representations and the display of every pane stay as they were.
LastId == IF minStorage = <<>> THEN 0 ELSE minStorage[Len(minStorage)].id

DuplicateRequestStep ==
  \A p \in Panes :
     (LastId = p /\ \E type \in EventTypes : minimize(p, type)) =>
        /\ minStorage' = minStorage
        /\ dropdown' = dropdown
        /\ minimizeZone' = minimizeZone
        /\ pane' = pane
        /\ ~threw'

DuplicateSuppression == [][DuplicateRequestStep]_vars

\* a second request for the hidden pane 2 has been discarded: count names
\* the slot after the last one
DuplicateSuppressionWitness ==
  /\ Len(minStorage) = 2 /\ minStorage[2].id = 2
  /\ count = 2
  /\ pane[2].display = "none"

\* C19: a restore whose index designates an empty slot of the registry, or
\* no slot, raises an error; it changes no registry slot and displays no
\* pane.
InvalidIndex(index) ==
  \/ index + 1 \notin 1 .. Len(minStorage)
  \/ minStorage[index + 1] = Empty

InvalidRestoreStep ==
  \A path \in RepPaths(minimizeZone) :
     (InvalidIndex(RepAt(minimizeZone, path).id) /\ RepClick(path)) =>
        /\ threw'
        /\ minStorage' = minStorage
        /\ pane' = pane

InvalidRestoreFailsLoud == [][InvalidRestoreStep]_vars

\* the click on a dropdown item whose slot was emptied has thrown
InvalidRestoreWitness ==
  /\ threw
  /\ dropdown
  /\ \E i \in 1 .. Len(minStorage) : minStorage[i] = Empty
  /\ \E i \in 1 .. Len(minimizeZone) :
        minimizeZone[i].kind = "list" /\ Len(minimizeZone[i].items) < Len(minStorage)

\* C20: closing pane P detaches it (with its wrapper); the close changes no
\* other pane, no registry entry and no snapshot; and from then on no event
\* changes P: it stays detached, its display and its tier are never written
\* again, and it gains or loses neither a snapshot nor a registry entry.
CloseStep ==
  \A p \in Panes :
     CloseBtnClick(p) =>
        /\ ~pane'[p].attached
        /\ \A r \in Panes \ {p} : pane'[r] = pane[r]
        /\ minStorage' = minStorage /\ minimizeZone' = minimizeZone /\ dropdown' = dropdown
        /\ maxStorage' = maxStorage

ClosedIsFrozen ==
  \A p \in Panes :
     (~pane[p].attached) =>
        /\ pane'[p] = pane[p]
        /\ (p \in DOMAIN maxStorage') = (p \in DOMAIN maxStorage)
        /\ (\E i \in 1 .. Len(minStorage') : minStorage'[i].id = p) = InRegistry(p)

CloseIsTerminal == [][CloseStep]_vars /\ [][ClosedIsFrozen]_vars

\* pane 1 was closed while maximized and in front; since then pane 2 has
\* been minimized and pane 3 brought to the front
CloseIsTerminalWitness ==
  /\ ~pane[1].attached /\ 1 \in DOMAIN maxStorage /\ pane[1].zIndex = FrontTier
  /\ pane[2].display = "none"
  /\ pane[3].zIndex = FrontTier

\* the pane fills the viewport: at (0, 0), a plain pane as large as the
\* viewport, a resizable one with the middle grid tracks 6px smaller and its
\* element at 100%
FillsViewport(p) ==
  /\ pane[p].left = 0 /\ pane[p].top = 0 /\ pane[p].margin = 0
  /\ IF IsResizable(p)
     THEN /\ pane[p].gridCol = viewport.w - EdgeMargin
          /\ pane[p].gridRow = viewport.h - EdgeMargin
          /\ pane[p].width = Percent(100) /\ pane[p].height = Percent(100)
     ELSE /\ pane[p].width = Px(viewport.w)
          /\ pane[p].height = Px(viewport.h)

\* C21: for every pane in the document a snapshot exists exactly when the
\* pane is maximized; each firing of the maximize button toggles between
\* taking the snapshot and clearing it, and no step writes over the snapshot
\* of a pane that stays maximized.
SnapshotIffMaximized ==
  \A p \in Attached : (p \in DOMAIN maxStorage) <=> FillsViewport(p)

TriggerAlternates ==
  \A p \in Panes :
     /\ MaxBtnClick(p) => ((p \in DOMAIN maxStorage') <=> (p \notin DOMAIN maxStorage))
     /\ (p \in DOMAIN maxStorage /\ p \in DOMAIN maxStorage') =>
           maxStorage'[p] = maxStorage[p]

SnapshotTracksMaximized == []SnapshotIffMaximized /\ [][TriggerAlternates]_vars

\* pane 2 is maximized, pane 1 was maximized and then minimized, and pane 3
\* has been maximized and restored
SnapshotTracksMaximizedWitness ==
  /\ 2 \in DOMAIN maxStorage /\ FillsViewport(2) /\ Visible(2)
  /\ 1 \in DOMAIN maxStorage /\ pane[1].display = "none"
  /\ 3 \notin DOMAIN maxStorage /\ pane[3].width = Percent(100)

\* C22: the maximize button fired on a Normal pane puts it at (0, 0) with
\* the size of the viewport: width x height for a plain pane, and middle
\* tracks of width - 6 and height - 6 between the 3px tracks for a
\* resizable pane.
MaximizeStep ==
  \A p \in Panes :
     (Normal(p) /\ MaxBtnClick(p)) =>
        /\ pane'[p].left = 0 /\ pane'[p].top = 0 /\ pane'[p].margin = 0
        /\ IF IsResizable(p)
           THEN /\ pane'[p].gridCol = viewport.w - 2 * PointSize
                /\ pane'[p].gridRow = viewport.h - 2 * PointSize
                /\ pane'[p].width = Percent(100) /\ pane'[p].height = Percent(100)
           ELSE /\ pane'[p].width = Px(viewport.w)
                /\ pane'[p].height = Px(viewport.h)

MaximizedGeometry == [][MaximizeStep]_vars

\* the resizable pane 3 and the plain pane 2 are both maximized
MaximizedGeometryWitness ==
  /\ Visible(3) /\ pane[3].gridCol = 24 /\ pane[3].gridRow = 14 /\ pane[3].left = 0
  /\ Visible(2) /\ pane[2].width = Px(30) /\ pane[2].height = Px(20) /\ pane[2].top = 0

\* C23: a pane registered as resizable whose computed width (height) is 0
\* gets width 200 (height 150), each axis on its own; a non-zero computed
\* size is kept.
DefaultSizeStep ==
  \A p \in Panes :
     (\E config \in Configs : config.resize /\ interactive(p, config)) =>
        LET w == pane[p].width.n
            h == pane[p].height.n
        IN /\ pane'[p].width = Px(IF w = 0 THEN 200 ELSE w)
           /\ pane'[p].gridCol = (IF w = 0 THEN 200 ELSE w)
           /\ pane'[p].height = Px(IF h = 0 THEN 150 ELSE h)
           /\ pane'[p].gridRow = (IF h = 0 THEN 150 ELSE h)

DefaultSize == [][DefaultSizeStep]_vars

\* pane 1 was registered with no width and a height of 7, pane 3 with a
\* width of 7 and no height
DefaultSizeWitness ==
  /\ pane[1].attached /\ pane[1].width = Px(200) /\ pane[1].gridRow = 7
  /\ pane[3].attached /\ pane[3].gridCol = 7 /\ pane[3].height = Px(150)


\* C24: right after any switch from the strip to the dropdown, by a
\* minimize or by a window resize, no strip item is left in the area and
\* the list holds one item per registry entry, ids 0..n-1 in registry order.
SwitchToDropdownStep ==
  (~dropdown /\ dropdown') =>
     minimizeZone' =
       <<BtnNode,
         ListNode([j \in 1 .. Len(minStorage') |-> ItemNode(j - 1, minStorage'[j].title)])>>

SwitchToDropdownComplete == [][SwitchToDropdownStep]_vars


\* C25: after every window-resize event the area is in strip mode exactly
\* when the number of minimized panes is at most the recomputed capacity.
ResizeModeStep ==
  (\E aw \in AreaWidths : onWindowResize(viewport, aw)) =>
     (~dropdown' <=>
        Cardinality({i \in 1 .. Len(minStorage') : minStorage'[i] # Empty})
          <= areaWidth' \div ItemOuterWidth)

ModeAfterResize == [][ResizeModeStep]_vars


\* C26: in every state reached by minimize, restore and window-resize
\* events, each rendered representation (strip item or list item) has the
\* index of a non-empty registry slot as its id, no two representations have
\* the same id, and a click on a representation shows again exactly the pane
\* recorded in its slot.
RepsAligned ==
  /\ \A path \in RepPaths(minimizeZone) :
        LET id == RepAt(minimizeZone, path).id
        IN /\ id + 1 \in 1 .. Len(minStorage)
           /\ minStorage[id + 1] # Empty
  /\ \A path1, path2 \in RepPaths(minimizeZone) :
        RepAt(minimizeZone, path1).id = RepAt(minimizeZone, path2).id => path1 = path2

ActivationShowsSlot ==
  \A path \in RepPaths(minimizeZone) :
     RepClick(path) =>
        LET id == RepAt(minimizeZone, path).id
        IN /\ id + 1 \in 1 .. Len(minStorage)
           /\ minStorage[id + 1] # Empty
           /\ pane' = [pane EXCEPT ![minStorage[id + 1].id].display = "shown"]

RepresentationAlignment == []RepsAligned /\ [][ActivationShowsSlot]_vars


\* C27: every pointer-move of a session makes the event's position the new
\* last pointer position, whether the step was committed or rejected; a move
\* step that is not rejected on an axis shifts the pane on that axis by the
\* pointer's displacement since the previous event, so that the steps of a
\* session without rejections add up to final pointer - initial pointer; a
\* pointer-move at the previous position changes no pane.
LastPointerStep ==
  \A x, y \in PointerRange :
     (~Idle /\ MouseMove(x, y)) => (session'.x1 = x /\ session'.y1 = y)

DeltaStep ==
  SessionMove("drag") =>
     LET p == session.target
         nx == pane[p].left + (session'.x1 - session.x1)
         ny == pane[p].top + (session'.y1 - session.y1)
     IN /\ (0 <= nx /\ nx + RectWidth(p) <= viewport.w) => pane'[p].left = nx
        /\ (0 <= ny /\ ny + RectHeight(p) <= viewport.h) => pane'[p].top = ny

RepeatedPositionStep ==
  (~Idle /\ MouseMove(session.x1, session.y1)) => pane' = pane

IncrementalDelta ==
  [][LastPointerStep]_vars /\ [][DeltaStep]_vars /\ [][RepeatedPositionStep]_vars

\* C28: a resize step on a zone with a Left component and horizontal delta d
\* (previous pointer x - event x) sets width + d and x - d, keeping the right
\* edge, unless x - d < 0 or width + d < 5, and then neither x nor the width
\* changes; likewise for a Top component with y, the height and the bottom edge.
LeftZones == {"left", "upperLeft", "lowerLeft"}
TopZones == {"top", "upperLeft", "upperRight"}

LeftTopStep ==
  SessionMove("resize") =>
     LET p == session.target
         dx == session.x1 - session'.x1
         dy == session.y1 - session'.y1
         x == pane[p].left
         y == pane[p].top
         w == pane[p].gridCol
         h == pane[p].gridRow
     IN /\ session.zone \in LeftZones =>
             IF x - dx < 0 \/ w + dx < 5
             THEN /\ pane'[p].left = x
                  /\ pane'[p].gridCol = w /\ pane'[p].width = Px(w)
             ELSE /\ pane'[p].left = x - dx
                  /\ pane'[p].gridCol = w + dx /\ pane'[p].width = Px(w + dx)
                  /\ pane'[p].left + pane'[p].gridCol = x + w
        /\ session.zone \in TopZones =>
             IF y - dy < 0 \/ h + dy < 5
             THEN /\ pane'[p].top = y
                  /\ pane'[p].gridRow = h /\ pane'[p].height = Px(h)
             ELSE /\ pane'[p].top = y - dy
                  /\ pane'[p].gridRow = h + dy /\ pane'[p].height = Px(h + dy)
                  /\ pane'[p].top + pane'[p].gridRow = y + h

LeftTopResize == [][LeftTopStep]_vars

\* a resize session on the upper left point has taken the corner of pane 1
\* to the origin, the pane being one wider and one higher
LeftTopResizeWitness ==
  /\ session.action = "resize" /\ session.zone = "upperLeft" /\ session.target = 1
  /\ pane[1].left = 0 /\ pane[1].top = 0
  /\ pane[1].gridCol = 6 /\ pane[1].gridRow = 6
  /\ session.x1 = 0 /\ session.y1 = 0


\* C29: a resize step on the left or right point never changes top or
\* height, a step on the top or bottom point never changes left or width,
\* and on a corner point each axis is committed whenever its own conditions
\* hold, whatever happens to the other axis.
AxisIndependenceStep ==
  SessionMove("resize") =>
     LET p == session.target
         zone == session.zone
         dx == session.x1 - session'.x1
         dy == session.y1 - session'.y1
         x == pane[p].left
         y == pane[p].top
         w == pane[p].gridCol
         h == pane[p].gridRow
     IN /\ zone \in {"left", "right"} =>
             /\ pane'[p].top = y
             /\ pane'[p].gridRow = h /\ pane'[p].height = pane[p].height
        /\ zone \in {"top", "bottom"} =>
             /\ pane'[p].left = x
             /\ pane'[p].gridCol = w /\ pane'[p].width = pane[p].width
        /\ (zone \in LeftZones /\ x - dx >= 0 /\ w + dx >= 5) =>
             (pane'[p].left = x - dx /\ pane'[p].gridCol = w + dx)
        /\ (zone \in RightZones /\ w - dx >= 5 /\ x + (w - dx) + 6 <= viewport.w) =>
             (pane'[p].left = x /\ pane'[p].gridCol = w - dx)
        /\ (zone \in TopZones /\ y - dy >= 0 /\ h + dy >= 5) =>
             (pane'[p].top = y - dy /\ pane'[p].gridRow = h + dy)
        /\ (zone \in BottomZones /\ h - dy >= 5 /\ y + (h - dy) + 6 <= viewport.h) =>
             (pane'[p].top = y /\ pane'[p].gridRow = h - dy)

AxisIndependence == [][AxisIndependenceStep]_vars

\* a session on the lower right point of a pane that touches the right edge
\* of the body: the pointer went one to the right and one down, the width
\* was kept and the height has grown
AxisIndependenceWitness ==
  /\ session.action = "resize" /\ session.zone = "lowerRight" /\ session.target = 1
  /\ pane[1].left = 1 /\ pane[1].gridCol = 5
  /\ pane[1].top = 0 /\ pane[1].gridRow = 6
  /\ session.x1 = 1 /\ session.y1 = 1


\* C30: a resize step on a zone with a Right (Bottom) component that reduces
\* the width (height) and keeps it at 5 or more is committed, also for a
\* pane that sticks out of the body on the right (at the bottom).
ReducingStep ==
  SessionMove("resize") =>
     LET p == session.target
         newWidth == pane[p].gridCol + (session'.x1 - session.x1)
         newHeight == pane[p].gridRow + (session'.y1 - session.y1)
     IN /\ (session.zone \in RightZones /\ newWidth < pane[p].gridCol /\ newWidth >= 5) =>
             (pane'[p].gridCol = newWidth /\ pane'[p].width = Px(newWidth))
        /\ (session.zone \in BottomZones /\ newHeight < pane[p].gridRow /\ newHeight >= 5) =>
             (pane'[p].gridRow = newHeight /\ pane'[p].height = Px(newHeight))

ReductionAlwaysCommitted == [][ReducingStep]_vars


\* C31: for every viewport size, also one narrower or shorter than 11, the
\* containment pass of a window-resize event leaves every pane with
\* offsetLeft >= 0 and offsetTop >= 0.
ContainmentPassStep ==
  (\E vp \in NarrowViewports : onWindowResize(vp, areaWidth)) =>
     \A p \in Panes :
        pane'[p].attached =>
           (pane'[p].left + pane'[p].margin >= 0 /\ pane'[p].top + pane'[p].margin >= 0)

NoNegativeOffset == [][ContainmentPassStep]_vars


\* C32: a resize step that commits a new width starts from the width the
\* pane has: with delta d the new width is W + d on a zone with a Left
\* component and W - d on a zone with a Right component, W being the width
\* of the restored pane after maximize and restore, and the maximized width
\* while the pane is maximized; likewise for the height.
ResizeReadsBackStep ==
  SessionMove("resize") =>
     LET p == session.target
         dx == session.x1 - session'.x1
         dy == session.y1 - session'.y1
         W == pane[p].gridCol
         H == pane[p].gridRow
     IN /\ pane'[p].gridCol # W =>
             pane'[p].gridCol = (IF session.zone \in LeftZones THEN W + dx ELSE W - dx)
        /\ pane'[p].gridRow # H =>
             pane'[p].gridRow = (IF session.zone \in TopZones THEN H + dy ELSE H - dy)

ResizeReadsBack == [][ResizeReadsBackStep]_vars


\* C38: a window-resize event ends without an uncaught error in every
\* reachable state, also while no minimize area exists and while no pane
\* has been minimized.
WindowResizeStep ==
  onWindowResize(viewport', areaWidth') => ~threw'

WindowResizeNeverFails == [][WindowResizeStep]_vars


\* C33: a move session started by a pointer-down on pane P's drag handle
\* acts on P, and its pointer-moves change no other pane's rectangle, for
\* any number of registered draggable panes and any registration order.
HandleStartsOwnSession ==
  \A p \in Panes, x, y \in PointerRange :
     (\/ dragPointOnmousedown(p, PrimaryButton, x, y)
      \/ MouseDownDragPoint(p, PrimaryButton, x, y)) =>
        (session'.action = "drag" /\ session'.target = p)

\* a pointer-move of the standalone builds changes the session's pane only
NodeMoveChangesTargetOnly ==
  documentOnmousemove(session'.x1, session'.y1) =>
     \A r \in Panes : r # session.target => pane'[r] = pane[r]

SessionTargetIsolation ==
  /\ [][HandleStartsOwnSession]_vars
  /\ [][MoveChangesTargetOnly]_vars
  /\ [][NodeMoveChangesTargetOnly]_vars


\* C34: from any reachable state, minimizing a Normal pane P and restoring
\* it at once leaves the sequence of live registry entries, the overflow
\* mode and the rendered representations of the other entries as they were.
LiveEntries(storage) == SelectSeq(storage, LAMBDA e : e # Empty)
RepSet(zone) == {<<RepAt(zone, path).id, RepAt(zone, path).title>> : path \in RepPaths(zone)}

\* the representation minimizeUI has just created: the last strip item, or
\* the last item of the list
NewestRep(m) ==
  LET dd == getElementById(m.zone, ListId)
  IN IF m.dropdown /\ Len(dd) = 1 THEN <<dd[1], Len(m.zone[dd[1]].items)>>
     ELSE <<Len(m.zone)>>

RoundTripOf(p) ==
  LET stored == storeMinimizedElement(Manager, p)
      checked == deleteDuplicatedItemsMinStorage(stored)
      m1 == minimizeUI(checked, areaWidth)
      hidden == [pane EXCEPT ![p].display = "none"]
      r == maximize(m1, NewestRep(m1), hidden)
  IN (~IsDuplicated(stored) /\ ~m1.threw) =>
        /\ ~r.m.threw
        /\ r.shown = p
        /\ LiveEntries(r.m.minStorage) = LiveEntries(minStorage)
        /\ r.m.dropdown = dropdown
        /\ RepSet(r.m.zone) = RepSet(minimizeZone)

RegistryRoundTrip ==
  \A p \in Panes :
     (Normal(p) /\ Len(minStorage) < MaxRegistry /\ Len(minimizeZone) < MaxChildren) =>
        RoundTripOf(p)


\* C35: under any sequence of minimize requests, also repeated ones for a
\* pane that is already minimized, and restores, no pane id is in more than
\* one live registry entry and no pane has more than one rendered
\* representation.
OneEntryPerPane ==
  /\ \A i, j \in 1 .. Len(minStorage) :
        (i # j /\ minStorage[i] # Empty /\ minStorage[j] # Empty) =>
           minStorage[i].id # minStorage[j].id
  /\ \A p \in Panes :
        Cardinality({path \in RepPaths(minimizeZone) :
                       RepAt(minimizeZone, path).title = Title(p)}) <= 1


\* C36: every strip/dropdown decision, on an insertion in strip mode, on a
\* restore from the dropdown and on a window resize, uses the capacity
\* floor(area width / item outer width) of the area's current width, also
\* while the strip shows no item.
CapacityStep ==
  /\ (~dropdown /\ \E p \in Panes, type \in EventTypes : Minimize(p, type)) =>
        numItems' = areaWidth \div ItemOuterWidth
  /\ (dropdown /\ \E path \in RepPaths(minimizeZone) : RepClick(path)) =>
        numItems = areaWidth \div ItemOuterWidth
  /\ (\E aw \in AreaWidths : onWindowResize(viewport, aw)) =>
        numItems' = areaWidth' \div ItemOuterWidth

CapacityValue == [][CapacityStep]_vars


\* C37: every field the restore branch writes back (top, left, margin and
\* the grid tracks of a wrapper; top, left, width, margin and height of a
\* plain pane) was recorded by the snapshot taken at maximize, so that the
\* margin, set to 0 by maximize, has its value of before on restore.
RestoredFields(p) ==
  IF IsResizable(p) THEN {"top", "left", "margin", "gridRow", "gridCol"}
  ELSE {"top", "left", "width", "margin", "height"}

SnapshotCoversRestore ==
  \A p \in Panes :
     Normal(p) =>
       LET first == maxBtnOnclick(p, pane[p], maxStorage, viewport)
           second == maxBtnOnclick(p, first.q, first.store, viewport)
       IN /\ RestoredFields(p) \subseteq DOMAIN first.store[p].actualSize
          /\ first.q.margin = 0
          /\ second.q.margin = pane[p].margin

====
